---- MODULE Spec2Model ----
(***************************************************************************)
(* Model of the type-generation pipeline of contentstorage-core:            *)
(*   jsonToTS = validate -> getTypeStructure -> optimizeTypeStructure       *)
(*              -> getNames -> getInterfaceDescriptions -> strings          *)
(*                                                                         *)
(* Strings are sequences of one-character strings, so that the regular      *)
(* expressions, the casing, the quoting and the ' | ' splitting of the code *)
(* are computed and not assumed.  A ShapeId is such a string too: either a  *)
(* primitive token or a digest of HashLen characters.                       *)
(***************************************************************************)
EXTENDS Naturals, Sequences, FiniteSets, TLC

VARIABLES
  json,          \* the value passed to jsonToTS
  rootNameOpt,   \* userOptions: NoOption or the rootName given
  pc,            \* position of the run inside jsonToTS
  types,         \* typeStructure.types, the descriptor collection
  rootTypeId,    \* typeStructure.rootTypeId
  names,         \* the NameEntry list returned by getNames
  descriptions,  \* the InterfaceDescription list
  result,        \* the list of declaration strings returned
  first,         \* what an earlier call with the same arguments built and returned
  config,        \* generateTypes: what the merged configuration holds
  gpc,           \* generateTypes: position of the script
  jsonObject,    \* generateTypes: the flattened content
  typeDeclarations, \* generateTypes: the list jsonToTS returned
  outputFile,    \* generateTypes: the content of config.typesOutputFile
  exitCode,      \* generateTypes: the code given to process.exit, NoExit before
  nameList,      \* getNameById step by step: nameMap.map(({ name }) => name)
  namePc,        \* getNameById step by step: position inside the call
  uniqueName,    \* uniqueByIncrement: its argument `name`
  uniqueI,       \* uniqueByIncrement: the loop counter i
  uniqueResult,  \* uniqueByIncrement: the value returned
  recorded       \* getNameById step by step: entries pushed since the start

\* the variables of generateTypes
genVars == <<config, gpc, jsonObject, typeDeclarations, outputFile, exitCode>>

\* the variables of jsonToTS
coreVars == <<json, rootNameOpt, pc, types, rootTypeId, names, descriptions, result, first>>

\* the variables of the step-by-step getNameById
searchVars == <<nameList, namePc, uniqueName, uniqueI, uniqueResult, recorded>>

vars == <<json, rootNameOpt, pc, types, rootTypeId, names, descriptions, result, first,
          genVars, searchVars>>

(***************************************************************************)
(* Bounds of the enumerated inputs.                                         *)
(***************************************************************************)
\* largest number of fields of a generated root object
MaxFields == 2
\* largest number of members of a generated array
MaxElems == 2
\* largest number of shapes named step by step after the start
MaxNamed == 2

(***************************************************************************)
(* Characters and strings.                                                  *)
(***************************************************************************)
Lower == <<"a","b","c","d","e","f","g","h","i","j","k","l","m",
           "n","o","p","q","r","s","t","u","v","w","x","y","z">>
Upper == <<"A","B","C","D","E","F","G","H","I","J","K","L","M",
           "N","O","P","Q","R","S","T","U","V","W","X","Y","Z">>
DigitChars == <<"0","1","2","3","4","5","6","7","8","9">>
HexChars == <<"0","1","2","3","4","5","6","7","8","9","a","b","c","d","e","f">>

Range(s) == {s[i] : i \in 1..Len(s)}

IsLower(c) == c \in Range(Lower)
IsUpper(c) == c \in Range(Upper)
IsLetter(c) == IsLower(c) \/ IsUpper(c)
IsDigit(c) == c \in Range(DigitChars)
\* \s of the regular expressions, on the characters the inputs use
IsSpace(c) == c \in {" ", "\t", "\n"}

\* String.prototype.toUpperCase on one character
ToUpperChar(c) ==
  IF IsLower(c) THEN Upper[CHOOSE i \in 1..Len(Lower) : Lower[i] = c] ELSE c

\* s.slice(0, -n)
DropLast(s, n) == IF Len(s) <= n THEN <<>> ELSE SubSeq(s, 1, Len(s) - n)

\* s.endsWith(suf)
EndsWith(s, suf) ==
  /\ Len(s) >= Len(suf)
  /\ SubSeq(s, Len(s) - Len(suf) + 1, Len(s)) = suf

\* s.startsWith(pre)
StartsWith(s, pre) ==
  /\ Len(s) >= Len(pre)
  /\ SubSeq(s, 1, Len(pre)) = pre

\* the first index at which sub occurs in s, 0 when it does not occur
IndexOfSub(s, sub) ==
  LET hits == {i \in 1..(Len(s) + 1) :
                 /\ i + Len(sub) - 1 <= Len(s)
                 /\ SubSeq(s, i, i + Len(sub) - 1) = sub}
  IN IF hits = {} THEN 0 ELSE CHOOSE i \in hits : \A j \in hits : i <= j

\* s.includes(sub)
Includes(s, sub) == IndexOfSub(s, sub) > 0

\* concatenation of a sequence of strings
RECURSIVE Concat(_)
Concat(ss) == IF ss = <<>> THEN <<>> ELSE Head(ss) \o Concat(Tail(ss))

\* arr.join(sep)
RECURSIVE Join(_, _)
Join(ss, sep) ==
  IF ss = <<>> THEN <<>>
  ELSE IF Len(ss) = 1 THEN ss[1]
  ELSE ss[1] \o sep \o Join(Tail(ss), sep)

\* s.split(sep) for a non-empty separator
RECURSIVE Split(_, _)
Split(s, sep) ==
  LET i == IndexOfSub(s, sep)
  IN IF i = 0 THEN <<s>>
     ELSE <<SubSeq(s, 1, i - 1)>> \o Split(SubSeq(s, i + Len(sep), Len(s)), sep)

\* decimal digits of a natural number, as `${n}` prints it
RECURSIVE IntToStr(_)
IntToStr(n) ==
  IF n < 10 THEN <<DigitChars[n + 1]>>
  ELSE IntToStr(n \div 10) \o <<DigitChars[(n % 10) + 1]>>

\* sequence without its element at index i
RemoveAt(s, i) == SubSeq(s, 1, i - 1) \o SubSeq(s, i + 1, Len(s))

\* arr.reverse()
Reverse(s) == [i \in 1..Len(s) |-> s[Len(s) + 1 - i]]

\* arr.filter(onlyUnique): the first occurrence of every element, in order
RECURSIVE OnlyUnique(_)
OnlyUnique(s) ==
  IF s = <<>> THEN <<>>
  ELSE LET init == OnlyUnique(DropLast(s, 1))
           last == s[Len(s)]
       IN IF last \in Range(init) THEN init ELSE Append(init, last)

(***************************************************************************)
(* String literals of the program.                                          *)
(***************************************************************************)
TString    == <<"s","t","r","i","n","g">>
TNumber    == <<"n","u","m","b","e","r">>
TBoolean   == <<"b","o","o","l","e","a","n">>
TNull      == <<"n","u","l","l">>
TUndefined == <<"u","n","d","e","f","i","n","e","d">>
TAny       == <<"a","n","y">>
OptSuffix  == <<"-","-","?">>
UnionSep   == <<" ","|"," ">>
ArrSuffix  == <<"[","]">>
ExportKw   == <<"e","x","p","o","r","t"," ">>
InterfaceKw == <<"i","n","t","e","r","f","a","c","e">>
DefaultRootName == <<"R","o","o","t","O","b","j","e","c","t">>

\* the value `null` passed as keyName by convertToReadableType
NullKey == <<"<null>">>
\* the value `undefined` as a name (uniqueByIncrement fell off its loop)
UndefinedName == <<"<undefined>">>

(***************************************************************************)
(* Input values.  A value is a record [t, ks, vs]: t is the kind of the     *)
(* JavaScript value, ks/vs the keys and values of an object (in key order)  *)
(* or vs the members of an array.                                           *)
(***************************************************************************)
JStr   == [t |-> "str",   ks |-> <<>>, vs |-> <<>>]
JNum   == [t |-> "num",   ks |-> <<>>, vs |-> <<>>]
JBool  == [t |-> "bool",  ks |-> <<>>, vs |-> <<>>]
JNull  == [t |-> "null",  ks |-> <<>>, vs |-> <<>>]
JUndef == [t |-> "undef", ks |-> <<>>, vs |-> <<>>]
JObj(ks, vs) == [t |-> "obj", ks |-> ks, vs |-> vs]
JArr(vs) == [t |-> "arr", ks |-> <<>>, vs |-> vs]

\* Object.prototype.toString.call(x) === "[object Array]"
isArray(x) == x.t = "arr"
\* Object.prototype.toString.call(x) === "[object Object]" && x !== null
isObject(x) == x.t = "obj"

(***************************************************************************)
(* Shape descriptors (TypeDescription).  isArr stands for                   *)
(* `arrayOfTypes !== undefined`; for an array vals is arrayOfTypes, for an  *)
(* object keys/vals are the entries of typeObj in insertion order.          *)
(***************************************************************************)
HashLen == 40

\* str.length === 40
isHash(str) == Len(str) = HashLen

\* the descriptor `undefined` returned by a failed find
NoDesc == [id |-> <<>>, isArr |-> FALSE, isUnion |-> FALSE,
           keys |-> <<>>, vals |-> <<>>, none |-> TRUE]

ObjDesc(id, keys, vals) ==
  [id |-> id, isArr |-> FALSE, isUnion |-> FALSE,
   keys |-> keys, vals |-> vals, none |-> FALSE]

ArrDesc(id, arrayOfTypes, isUnion) ==
  [id |-> id, isArr |-> TRUE, isUnion |-> isUnion,
   keys |-> <<>>, vals |-> arrayOfTypes, none |-> FALSE]

\* types.find(_ => _.id === id)
findTypeById(id, ts) ==
  LET hits == {i \in 1..Len(ts) : ts[i].id = id}
  IN IF hits = {} THEN NoDesc
     ELSE ts[CHOOSE i \in hits : \A j \in hits : i <= j]

\* TypeGroup of a descriptor
getTypeDescriptionGroup(desc) ==
  IF desc.none THEN "Primitive"
  ELSE IF desc.isArr THEN "Array"
  ELSE "Object"

\* key.endsWith('--?') ? {isOptional, keyValue: key.slice(0, -3)} : {isOptional, keyValue: key}
parseKeyMetaData(key) ==
  LET isOptional == EndsWith(key, OptSuffix)
  IN [isOptional |-> isOptional,
      keyValue |-> IF isOptional THEN DropLast(key, 3) ELSE key]

(***************************************************************************)
(* Structural Hasher and Type Structure Builder.                            *)
(***************************************************************************)
\* a digest: HashLen hexadecimal characters, one per descriptor number
Digest(n) ==
  [i \in 1..HashLen |->
     IF i = HashLen THEN HexChars[(n % 16) + 1]
     ELSE IF i = HashLen - 1 THEN HexChars[((n \div 16) % 16) + 1]
     ELSE IF i = HashLen - 2 THEN HexChars[((n \div 256) % 16) + 1]
     ELSE "0"]

\* obj[key] = val on an ordered list of entries
SetField(keys, vals, key, val) ==
  LET hits == {i \in 1..Len(keys) : keys[i] = key}
  IN IF hits = {}
     THEN [keys |-> Append(keys, key), vals |-> Append(vals, val)]
     ELSE [keys |-> keys,
           vals |-> [i \in 1..Len(vals) |-> IF i \in hits THEN val ELSE vals[i]]]

\* identical shape: same field-name -> child map, or same element set and flag
typeObjectMatchesTypeDesc(c, d) ==
  IF c.isArr
  THEN d.isArr /\ d.isUnion = c.isUnion /\ Range(d.vals) = Range(c.vals)
  ELSE /\ ~d.isArr
       /\ {<<d.keys[i], d.vals[i]>> : i \in 1..Len(d.keys)}
            = {<<c.keys[i], c.vals[i]>> : i \in 1..Len(c.keys)}

\* reuse the descriptor of this shape or insert a new one under a new digest
getIdByType(c, ts) ==
  LET hits == {i \in 1..Len(ts) : typeObjectMatchesTypeDesc(c, ts[i])}
  IN IF hits # {}
     THEN [id |-> ts[CHOOSE i \in hits : \A j \in hits : i <= j].id, types |-> ts]
     ELSE LET id == Digest(Len(ts) + 1)
          IN [id |-> id, types |-> Append(ts, [c EXCEPT !.id = id])]

\* typeof value, null for null
getSimpleTypeName(v) ==
  CASE v.t = "str" -> TString
    [] v.t = "num" -> TNumber
    [] v.t = "bool" -> TBoolean
    [] v.t = "null" -> TNull
    [] OTHER -> TUndefined

toOptionalKey(key) == IF EndsWith(key, OptSuffix) THEN key ELSE key \o OptSuffix

RECURSIVE getInnerArrayType(_, _)
RECURSIVE MergeKeys(_, _, _, _, _)

\* one merged object shape: union of the contributors' fields, a field absent
\* from at least one contributor optional
getMergedObjects(descs, ts) ==
  LET allKeys == OnlyUnique(Concat([i \in 1..Len(descs) |-> descs[i].keys]))
      m == MergeKeys(allKeys, descs, ts, <<>>, <<>>)
  IN getIdByType(ObjDesc(<<>>, m.keys, m.vals), m.types)

MergeKeys(todo, descs, ts, keys, vals) ==
  IF todo = <<>> THEN [keys |-> keys, vals |-> vals, types |-> ts]
  ELSE
    LET key == Head(todo)
        having == SelectSeq(descs, LAMBDA d : key \in Range(d.keys))
        typesOfKey ==
          OnlyUnique([i \in 1..Len(having) |->
            having[i].vals[CHOOSE k \in 1..Len(having[i].keys) : having[i].keys[k] = key]])
        isMandatory == Len(having) = Len(descs)
        type == IF Len(typesOfKey) = 1
                THEN [id |-> typesOfKey[1], types |-> ts]
                ELSE getInnerArrayType(typesOfKey, ts)
        keyValue == IF isMandatory THEN key ELSE toOptionalKey(key)
        f == SetField(keys, vals, keyValue, type.id)
    IN MergeKeys(Tail(todo), descs, type.types, f.keys, f.vals)

\* the element shape of an array with the distinct member shapes typesOfArray
getInnerArrayType(typesOfArray, ts) ==
  LET descs == [i \in 1..Len(typesOfArray) |-> findTypeById(typesOfArray[i], ts)]
      allObjectType ==
        \A i \in 1..Len(descs) : getTypeDescriptionGroup(descs[i]) = "Object"
  IN IF Len(typesOfArray) = 0 THEN getIdByType(ArrDesc(<<>>, <<>>, TRUE), ts)
     ELSE IF Len(typesOfArray) = 1 THEN [id |-> typesOfArray[1], types |-> ts]
     ELSE IF allObjectType THEN getMergedObjects(descs, ts)
     ELSE getIdByType(ArrDesc(<<>>, typesOfArray, TRUE), ts)

RECURSIVE getTypeStructure(_, _)
RECURSIVE ResolveAll(_, _)

\* the shape ids of a list of values, left to right, threading the collection
ResolveAll(vs, ts) ==
  IF vs = <<>> THEN [ids |-> <<>>, types |-> ts]
  ELSE LET h == getTypeStructure(Head(vs), ts)
           t == ResolveAll(Tail(vs), h.types)
       IN [ids |-> <<h.id>> \o t.ids, types |-> t.types]

getTypeStructure(targetObj, ts) ==
  CASE isArray(targetObj) ->
         LET r == ResolveAll(targetObj.vs, ts)
             typesOfArray == OnlyUnique(r.ids)
             inner == getInnerArrayType(typesOfArray, r.types)
         IN getIdByType(ArrDesc(<<>>, <<inner.id>>, FALSE), inner.types)
    [] isObject(targetObj) ->
         LET r == ResolveAll(targetObj.vs, ts)
         IN getIdByType(ObjDesc(<<>>, targetObj.ks, r.ids), r.types)
    [] OTHER -> [id |-> getSimpleTypeName(targetObj), types |-> ts]

(***************************************************************************)
(* Type Structure Optimizer.                                                *)
(***************************************************************************)
\* the ids reachable from the ids in `seen` through digest-valued fields/elements
RECURSIVE Reach(_, _)
Reach(seen, ts) ==
  LET next == seen \cup
        {v \in UNION {Range(findTypeById(id, ts).vals) : id \in seen} :
           isHash(v) /\ ~findTypeById(v, ts).none}
  IN IF next = seen THEN seen ELSE Reach(next, ts)

\* the root and the descriptors the root refers to itself, no further
getAllUsedTypeIdsOneLevel(root, ts) ==
  {root} \cup {v \in Range(findTypeById(root, ts).vals) : isHash(v)}

getAllUsedTypeIds(root, ts) ==
  IF findTypeById(root, ts).none THEN {} ELSE Reach({root}, ts)

\* the collection left as the builder made it
optimizeTypeStructureKeepAll(root, ts) == ts

optimizeTypeStructure(root, ts) ==
  LET used == getAllUsedTypeIds(root, ts)
  IN SelectSeq(ts, LAMBDA d : d.id \in used)

(***************************************************************************)
(* Name Assigner (get-names.ts).  The name list is a sequence of NameEntry  *)
(* [id, name]; a naming context [nm, err] carries the list and whether a    *)
(* TypeError was thrown (after which nothing more is recorded).             *)
(***************************************************************************)
MaxAttempts == 1000

NameEntry(id, name) == [id |-> id, name |-> name]

\* name.charAt(0).toUpperCase() + name.slice(1)
capitalize(name) ==
  IF name = <<>> THEN <<>> ELSE <<ToUpperChar(Head(name))>> \o Tail(name)

\* name.split(/\s+/g).filter(_ => _ !== ""): the maximal runs of non-space characters
RECURSIVE SplitWs(_, _, _)
SplitWs(rest, cur, acc) ==
  IF rest = <<>> THEN (IF cur = <<>> THEN acc ELSE Append(acc, cur))
  ELSE IF IsSpace(Head(rest))
       THEN SplitWs(Tail(rest), <<>>, IF cur = <<>> THEN acc ELSE Append(acc, cur))
       ELSE SplitWs(Tail(rest), Append(cur, Head(rest)), acc)

pascalCase(name) ==
  LET words == SplitWs(name, <<>>, <<>>)
  IN Concat([i \in 1..Len(words) |-> capitalize(words[i])])

normalizeInvalidTypeName(name) ==
  IF /\ name # <<>>
     /\ IsLetter(name[1])
     /\ \A i \in 1..Len(name) : IsLetter(name[i]) \/ IsDigit(name[i])
  THEN name
  ELSE LET noSymbolsName == SelectSeq(name, LAMBDA c : IsLetter(c) \/ IsDigit(c))
           startsWithWordCharacter == noSymbolsName # <<>> /\ IsLetter(noSymbolsName[1])
       IN IF startsWithWordCharacter THEN noSymbolsName ELSE <<"_">> \o noSymbolsName

\* for (i = 0; i < 1000; i++) { proposal = i === 0 ? name : name + (i + 1) ... }
RECURSIVE uniqueFrom(_, _, _)
uniqueFrom(name, used, i) ==
  IF i >= MaxAttempts THEN UndefinedName
  ELSE LET nameProposal == IF i = 0 THEN name ELSE name \o IntToStr(i + 1)
       IN IF nameProposal \notin Range(used) THEN nameProposal
          ELSE uniqueFrom(name, used, i + 1)

uniqueByIncrement(name, used) == uniqueFrom(name, used, 0)

\* pluralize.singular on the keys the inputs use: rules /ies$/i -> 'y',
\* /(ss)$/i -> '$1' and /s$/i -> '', the later rule winning
singular(word) ==
  LET n == Len(word)
      isS(c) == c \in {"s", "S"}
  IN IF n >= 3 /\ word[n - 2] \in {"i", "I"} /\ word[n - 1] \in {"e", "E"} /\ isS(word[n])
     THEN DropLast(word, 3) \o <<"y">>
     ELSE IF n >= 2 /\ isS(word[n - 1]) /\ isS(word[n]) THEN word
     ELSE IF n >= 1 /\ isS(word[n]) THEN DropLast(word, 1)
     ELSE word

\* the key never singularized
candidateNameNoSingular(keyName, isInsideArray) ==
  pascalCase(normalizeInvalidTypeName(pascalCase(parseKeyMetaData(keyName).keyValue)))

\* the maps of [keyName] before the one that calls uniqueByIncrement
candidateName(keyName, isInsideArray) ==
  LET k1 == parseKeyMetaData(keyName).keyValue
      k2 == IF isInsideArray THEN singular(k1) ELSE k1
      k3 == pascalCase(k2)
      k4 == normalizeInvalidTypeName(k3)
  IN pascalCase(k4)

\* the name derived for an object shape from the key that led to it
objectName(keyName, isInsideArray, nm) ==
  uniqueByIncrement(candidateName(keyName, isInsideArray),
                    [i \in 1..Len(nm) |-> nm[i].name])

RECURSIVE getNameById(_, _, _, _, _)
RECURSIVE unionFrom(_, _, _, _, _)

\* isHash(x) ? getNameById(x, null, true, types, nameMap) : x
convertToReadableType(idOrPrimitive, ts, ctx) ==
  IF isHash(idOrPrimitive)
  THEN getNameById(idOrPrimitive, NullKey, TRUE, ts, ctx)
  ELSE [name |-> idOrPrimitive, ctx |-> ctx]

\* arrayOfTypes.reduce((acc, type, i) => i === 0 ? readable : `${acc} | ${readable}`, "")
unionFrom(arrayOfTypes, i, acc, ts, ctx) ==
  IF i > Len(arrayOfTypes) \/ ctx.err THEN [name |-> acc, ctx |-> ctx]
  ELSE LET r == convertToReadableType(arrayOfTypes[i], ts, ctx)
       IN unionFrom(arrayOfTypes, i + 1,
                    IF i = 1 THEN r.name ELSE acc \o UnionSep \o r.name, ts, r.ctx)

unionToString(typeDesc, ts, ctx) == unionFrom(typeDesc.vals, 1, <<>>, ts, ctx)

getArrayName(typeDesc, ts, ctx) ==
  IF Len(typeDesc.vals) = 0 THEN [name |-> TAny, ctx |-> ctx]
  ELSE IF Len(typeDesc.vals) = 1 THEN convertToReadableType(typeDesc.vals[1], ts, ctx)
  ELSE unionToString(typeDesc, ts, ctx)

\* the inner type never put in parentheses
formatArrayNameNeverParens(typeDesc, ts, ctx) ==
  LET r == getArrayName(typeDesc, ts, ctx)
  IN [name |-> r.name \o ArrSuffix, ctx |-> r.ctx]

\* the inner type always put in parentheses
formatArrayNameAlwaysParens(typeDesc, ts, ctx) ==
  LET r == getArrayName(typeDesc, ts, ctx)
  IN [name |-> <<"(">> \o r.name \o <<")">> \o ArrSuffix, ctx |-> r.ctx]

\* the inner type returned without the `[]` suffix
formatArrayNameNoSuffix(typeDesc, ts, ctx) == getArrayName(typeDesc, ts, ctx)

formatArrayName(typeDesc, ts, ctx) ==
  IF Len(typeDesc.vals) = 0
  THEN \* isHash(undefined): TypeError
       [name |-> UndefinedName, ctx |-> [ctx EXCEPT !.err = TRUE]]
  ELSE
    LET innerTypeId == typeDesc.vals[1]
        inner == findTypeById(innerTypeId, ts)
    IN IF isHash(innerTypeId) /\ inner.none
       THEN \* findTypeById(...).isUnion of undefined: TypeError
            [name |-> UndefinedName, ctx |-> [ctx EXCEPT !.err = TRUE]]
       ELSE
         LET isMultipleTypeArray ==
               isHash(innerTypeId) /\ inner.isUnion /\ Len(inner.vals) > 1
             r == getArrayName(typeDesc, ts, ctx)
         IN [name |-> IF isMultipleTypeArray
                      THEN <<"(">> \o r.name \o <<")">> \o ArrSuffix
                      ELSE r.name \o ArrSuffix,
             ctx |-> r.ctx]

\* getNameById without the lookup of an entry already recorded for the id
getNameByIdNoMemo(id, keyName, isInsideArray, ts, ctx) ==
  LET typeDesc == findTypeById(id, ts)
      group == getTypeDescriptionGroup(typeDesc)
      r == CASE group = "Array" ->
                  IF typeDesc.isUnion THEN getArrayName(typeDesc, ts, ctx)
                  ELSE formatArrayName(typeDesc, ts, ctx)
             [] group = "Object" ->
                  IF keyName = NullKey
                  THEN [name |-> UndefinedName, ctx |-> [ctx EXCEPT !.err = TRUE]]
                  ELSE [name |-> objectName(keyName, isInsideArray, ctx.nm), ctx |-> ctx]
             [] OTHER -> [name |-> UndefinedName, ctx |-> ctx]
  IN IF ctx.err \/ r.ctx.err THEN [name |-> UndefinedName, ctx |-> [ctx EXCEPT !.err = TRUE]]
     ELSE [name |-> r.name,
           ctx |-> [r.ctx EXCEPT !.nm = Append(@, NameEntry(id, r.name))]]

getNameById(id, keyName, isInsideArray, ts, ctx) ==
  LET hits == {i \in 1..Len(ctx.nm) : ctx.nm[i].id = id}
  IN IF ctx.err THEN [name |-> UndefinedName, ctx |-> ctx]
     ELSE IF hits # {}
     THEN [name |-> ctx.nm[CHOOSE i \in hits : \A j \in hits : i <= j].name, ctx |-> ctx]
     ELSE
       LET typeDesc == findTypeById(id, ts)
           group == getTypeDescriptionGroup(typeDesc)
           r == CASE group = "Array" ->
                       IF typeDesc.isUnion THEN getArrayName(typeDesc, ts, ctx)
                       ELSE formatArrayName(typeDesc, ts, ctx)
                  [] group = "Object" ->
                       IF keyName = NullKey
                       THEN \* parseKeyMetaData(null): TypeError
                            [name |-> UndefinedName, ctx |-> [ctx EXCEPT !.err = TRUE]]
                       ELSE [name |-> objectName(keyName, isInsideArray, ctx.nm),
                             ctx |-> ctx]
                  [] OTHER -> [name |-> UndefinedName, ctx |-> ctx]
       IN IF r.ctx.err THEN r
          ELSE [name |-> r.name,
                ctx |-> [r.ctx EXCEPT !.nm = Append(@, NameEntry(id, r.name))]]

RECURSIVE getName(_, _, _, _, _)
RECURSIVE nameChildren(_, _, _, _, _)

\* the forEach left out: no element and no field value is named
nameChildrenSkipped(typeDesc, i, keyName, ts, ctx) == ctx

\* the forEach running from the last element or entry to the first
RECURSIVE nameChildrenLastFirst(_, _, _, _, _)
nameChildrenLastFirst(typeDesc, i, keyName, ts, ctx) ==
  IF i > Len(typeDesc.vals) \/ ctx.err THEN ctx
  ELSE LET p == Len(typeDesc.vals) - i + 1
           childKey == IF typeDesc.isArr
                       THEN (IF p = 1 THEN keyName ELSE keyName \o IntToStr(p))
                       ELSE typeDesc.keys[p]
           c == getName(typeDesc.vals[p], childKey, ctx, typeDesc.isArr, ts)
       IN nameChildrenLastFirst(typeDesc, i + 1, keyName, ts, c)

\* the forEach of getName over the elements (an array) or the entries (an object)
nameChildren(typeDesc, i, keyName, ts, ctx) ==
  IF i > Len(typeDesc.vals) \/ ctx.err THEN ctx
  ELSE LET childKey == IF typeDesc.isArr
                       THEN (IF i = 1 THEN keyName ELSE keyName \o IntToStr(i))
                       ELSE typeDesc.keys[i]
           c == getName(typeDesc.vals[i], childKey, ctx, typeDesc.isArr, ts)
       IN nameChildren(typeDesc, i + 1, keyName, ts, c)

\* getName recording the shape before it visits the elements or field values
getNameParentFirst(rootId, keyName, ctx, isInsideArray, ts) ==
  LET typeDesc == findTypeById(rootId, ts)
  IN IF getTypeDescriptionGroup(typeDesc) = "Primitive" THEN ctx
     ELSE nameChildren(typeDesc, 1, keyName, ts,
                       getNameById(typeDesc.id, keyName, isInsideArray, ts, ctx).ctx)

getName(rootId, keyName, ctx, isInsideArray, ts) ==
  LET typeDesc == findTypeById(rootId, ts)
  IN IF getTypeDescriptionGroup(typeDesc) = "Primitive" THEN ctx
     ELSE LET c == nameChildren(typeDesc, 1, keyName, ts, ctx)
          IN getNameById(typeDesc.id, keyName, isInsideArray, ts, c).ctx

\* getNames continuing the name list an earlier call has left behind
getNamesOnEarlierList(rootId, ts, rootName) ==
  LET c == getName(rootId, rootName, [nm |-> first.names, err |-> FALSE], FALSE, ts)
  IN [nm |-> Reverse(c.nm), err |-> c.err]

\* getNames without the final reverse()
getNamesNoReverse(rootId, ts, rootName) ==
  getName(rootId, rootName, [nm |-> <<>>, err |-> FALSE], FALSE, ts)

getNames(rootId, ts, rootName) ==
  LET c == getName(rootId, rootName, [nm |-> <<>>, err |-> FALSE], FALSE, ts)
  IN [nm |-> Reverse(c.nm), err |-> c.err]

(***************************************************************************)
(* Interface Synthesizer (get-interfaces).                                  *)
(***************************************************************************)
\* /^[a-zA-Z_][a-zA-Z\d_]*$/.test(keyName)
isKeyNameValid(keyName) ==
  /\ keyName # <<>>
  /\ IsLetter(keyName[1]) \/ keyName[1] = "_"
  /\ \A i \in 1..Len(keyName) :
       IsLetter(keyName[i]) \/ IsDigit(keyName[i]) \/ keyName[i] = "_"

\* the copy of parseKeyMetaData local to get-interfaces
parseKeyMetaDataOfInterfaces(key) ==
  LET isOptional == EndsWith(key, OptSuffix)
  IN [isOptional |-> isOptional,
      keyValue |-> IF isOptional THEN DropLast(key, 3) ELSE key]

\* typeName.includes(" | ") && !/^\(.*\)\[\]$/.test(typeName)
isNonArrayUnion(typeName) ==
  /\ Includes(typeName, UnionSep)
  /\ ~(/\ Len(typeName) >= 4
       /\ typeName[1] = "("
       /\ EndsWith(typeName, <<")">> \o ArrSuffix))

\* split(' | '); splice(indexOf('undefined'), 1); join(' | ')
removeUndefinedFromUnion(unionTypeName) ==
  LET typeNames == Split(unionTypeName, UnionSep)
      hits == {i \in 1..Len(typeNames) : typeNames[i] = TUndefined}
      \* indexOf gives -1 when absent, and splice(-1, 1) removes the last element
      undefinedIndex == IF hits = {} THEN Len(typeNames)
                        ELSE CHOOSE i \in hits : \A j \in hits : i <= j
  IN Join(RemoveAt(typeNames, undefinedIndex), UnionSep)

\* names.find(_ => _.id === id).name; found is FALSE when find gives undefined
findNameById(id, nm) ==
  LET hits == {i \in 1..Len(nm) : nm[i].id = id}
  IN IF hits = {} THEN [found |-> FALSE, name |-> UndefinedName]
     ELSE [found |-> TRUE, name |-> nm[CHOOSE i \in hits : \A j \in hits : i <= j].name]

\* an entry [key, type, isOptional] between the map steps; err: a TypeError was thrown
FieldEntry(key, type, isOptional, err) ==
  [key |-> key, type |-> type, isOptional |-> isOptional, err |-> err]

\* quote key if is invalid and question mark if optional from array merging
quoteKey(key, type) ==
  LET meta == parseKeyMetaDataOfInterfaces(key)
      validName == IF isKeyNameValid(meta.keyValue) THEN meta.keyValue
                   ELSE <<"'">> \o meta.keyValue \o <<"'">>
  IN FieldEntry(IF meta.isOptional THEN validName \o <<"?">> ELSE validName,
                type, meta.isOptional, FALSE)

\* replace hashes with names referencing the hashes
replaceHash(e, nm) ==
  IF ~isHash(e.type) THEN e
  ELSE LET f == findNameById(e.type, nm)
       IN FieldEntry(e.key, f.name, e.isOptional, ~f.found)

\* if union has undefined, remove undefined and make type optional
stripUndefined(e) ==
  IF e.err \/ e.type = UndefinedName
  THEN \* type.includes of a name that is `undefined`: TypeError
       [e EXCEPT !.err = TRUE]
  ELSE IF ~(isNonArrayUnion(e.type) /\ Includes(e.type, TUndefined)) THEN e
  ELSE FieldEntry(IF e.isOptional THEN e.key ELSE e.key \o <<"?">>,
                  removeUndefinedFromUnion(e.type), e.isOptional, FALSE)

\* the key marked without regard to the mark it may carry already
undefinedToAnyMarkedAgain(e) ==
  IF e.err \/ e.type # TUndefined THEN e
  ELSE FieldEntry(e.key \o <<"?">>, TAny, e.isOptional, FALSE)

\* make undefined optional and set type as any
undefinedToAny(e) ==
  IF e.err \/ e.type # TUndefined THEN e
  ELSE FieldEntry(IF e.isOptional THEN e.key ELSE e.key \o <<"?">>,
                  TAny, e.isOptional, FALSE)

\* the four map steps of replaceTypeObjIdsWithNames on one entry
renderField(key, type, nm) ==
  undefinedToAny(stripUndefined(replaceHash(quoteKey(key, type), nm)))

\* entries mapped by renderField and reduced into an object with agg[key] = value
RECURSIVE replaceFrom(_, _, _, _, _)
replaceFrom(typeDesc, i, nm, keys, vals) ==
  IF i > Len(typeDesc.keys) THEN [keys |-> keys, vals |-> vals, err |-> FALSE]
  ELSE LET f == renderField(typeDesc.keys[i], typeDesc.vals[i], nm)
           o == SetField(keys, vals, f.key, f.type)
       IN IF f.err THEN [keys |-> keys, vals |-> vals, err |-> TRUE]
          ELSE replaceFrom(typeDesc, i + 1, nm, o.keys, o.vals)

replaceTypeObjIdsWithNames(typeDesc, nm) == replaceFrom(typeDesc, 1, nm, <<>>, <<>>)

\* names.map(...).filter(_ => _ !== null)
RECURSIVE descriptionsFrom(_, _, _, _)
descriptionsFrom(ts, nm, i, acc) ==
  IF i > Len(nm) THEN [list |-> acc, err |-> FALSE]
  ELSE LET typeDescription == findTypeById(nm[i].id, ts)
       IN IF typeDescription.none
          THEN \* typeDescription.typeObj of undefined: TypeError
               [list |-> acc, err |-> TRUE]
          ELSE IF typeDescription.isArr
          THEN descriptionsFrom(ts, nm, i + 1, acc)
          ELSE LET typeMap == replaceTypeObjIdsWithNames(typeDescription, nm)
               IN IF typeMap.err THEN [list |-> acc, err |-> TRUE]
                  ELSE descriptionsFrom(ts, nm, i + 1,
                         Append(acc, [name |-> nm[i].name,
                                      keys |-> typeMap.keys, vals |-> typeMap.vals]))

\* a description for every entry of the name list, array shapes included
getInterfaceDescriptionsUnfiltered(ts, nm) ==
  [list |-> [i \in 1..Len(nm) |->
               LET typeMap == replaceTypeObjIdsWithNames(findTypeById(nm[i].id, ts), nm)
               IN [name |-> nm[i].name, keys |-> typeMap.keys, vals |-> typeMap.vals]],
   err |-> FALSE]

\* the descriptions built in the order in which the entries were recorded
getInterfaceDescriptionsAsRecorded(ts, nm) ==
  LET r == descriptionsFrom(ts, nm, 1, <<>>)
  IN [list |-> Reverse(r.list), err |-> r.err]

getInterfaceDescriptions(ts, nm) == descriptionsFrom(ts, nm, 1, <<>>)

\* `  ${key}: ${name};\n`
fieldLine(key, name) == <<" ", " ">> \o key \o <<":", " ">> \o name \o <<";", "\n">>

getInterfaceStringFromDescription(d, isRoot) ==
  (IF isRoot THEN ExportKw ELSE <<>>)
    \o InterfaceKw \o <<" ">> \o d.name \o <<" ", "{", "\n">>
    \o Concat([i \in 1..Len(d.keys) |-> fieldLine(d.keys[i], d.vals[i])])
    \o <<"}">>

(***************************************************************************)
(* The inputs: documents and options the run is started with.               *)
(***************************************************************************)
KId     == <<"i","d">>
KNote   == <<"n","o","t","e">>
KTags   == <<"t","a","g","s">>
KUser   == <<"u","s","e","r">>
KAdmin  == <<"a","d","m","i","n">>
KName   == <<"n","a","m","e">>
KUsers  == <<"u","s","e","r","s">>
KDash   == <<"a","-","b">>
KDigits == <<"1","2","3","a","b","c">>
KA      == <<"a">>
KXundefined == <<"x","u","n","d","e","f","i","n","e","d">>
\* a key of the document that ends like the optional marker
KMarked == <<"a","-","-","?">>

\* userOptions absent
NoOption == <<"<none>">>
ContentRoot == <<"C","o","n","t","e","n","t","R","o","o","t">>
LowerRoot == <<"r","o","o","t">>
RootNames == {NoOption, ContentRoot, LowerRoot, KUsers}

\* { ...defaultOptions, ...userOptions }.rootName
optionsRootName(opt) == IF opt = NoOption THEN DefaultRootName ELSE opt

\* sequences of at most n distinct keys
KeySeqs(keys, n) ==
  {ks \in UNION {[1..k -> keys] : k \in 0..n} :
     \A i, j \in 1..Len(ks) : i # j => ks[i] # ks[j]}

\* objects with the key sequences kss and values from vals
Objects(kss, vals) ==
  UNION {{JObj(ks, vs) : vs \in [1..Len(ks) -> vals]} : ks \in kss}

\* arrays of at most n members from vals
Arrays(vals, n) == UNION {{JArr(vs) : vs \in [1..k -> vals]} : k \in 0..n}

Scalars == {JStr, JNum, JUndef}

\* the objects that occur as array members
ElemObjs == Objects({<<>>, <<KId>>, <<KNote>>, <<KId, KNote>>}, Scalars)

\* arrays of scalars and objects
SomeArrays == Arrays(Scalars \cup ElemObjs, MaxElems)

\* the values of the fields of a generated root object
FieldVals == {JNum, JStr, JObj(<<KName>>, <<JStr>>), JArr(<<JStr, JStr>>)}

RootObjects ==
  Objects(KeySeqs({KUser, KAdmin, KDash, KDigits, DefaultRootName}, MaxFields), FieldVals)

\* a root object with one array-valued field
ArrayHolders == {JObj(<<k>>, <<a>>) : k \in {KUsers, KDash}, a \in SomeArrays}

\* the documents of the examples
Examples ==
  { JObj(<<KId, KTags>>, <<JNum, JArr(<<JStr, JStr>>)>>),
    JObj(<<KUser, KAdmin>>, <<JObj(<<KName>>, <<JStr>>), JObj(<<KName>>, <<JStr>>)>>),
    JArr(<<JObj(<<KId>>, <<JNum>>), JObj(<<KId, KNote>>, <<JNum, JStr>>)>>),
    JObj(<<KDigits, KDash>>, <<JNum, JNum>>),
    JArr(<<JObj(<<KA>>, <<JArr(<<JNum, JStr>>)>>),
           JObj(<<KA>>, <<JUndef>>),
           JObj(<<KA>>, <<JArr(<<JBool, JNull>>)>>)>>),
    JObj(<<KTags>>, <<JArr(<<JArr(<<JNum, JStr>>), JArr(<<JNum, JStr>>)>>)>>),
    JArr(<<JObj(<<KUser>>, <<JObj(<<KName>>, <<JStr>>)>>), JObj(<<KId>>, <<JNum>>)>>),
    JArr(<<JObj(<<KDash>>, <<JNum>>), JObj(<<KId>>, <<JNum>>)>>),
    JArr(<<JObj(<<KUser>>, <<JObj(<<KName>>, <<JStr>>)>>),
           JObj(<<KUser>>, <<JObj(<<KId>>, <<JNum>>)>>)>>),
    JObj(<<KUsers, KAdmin>>,
         <<JArr(<<JObj(<<KName>>, <<JStr>>)>>), JObj(<<KName>>, <<JStr>>)>>),
    JObj(<<KAdmin, KUsers>>,
         <<JObj(<<KName>>, <<JStr>>), JArr(<<JObj(<<KName>>, <<JStr>>)>>)>>),
    JArr(<<JObj(<<KUsers>>, <<JArr(<<JObj(<<KId>>, <<JNum>>)>>)>>),
           JObj(<<KId>>, <<JNum>>)>>),
    JObj(<<KTags>>, <<JArr(<<JArr(<<JNum>>)>>)>>),
    JObj(<<KTags>>, <<JArr(<<JStr, JArr(<<JNum>>)>>)>>),
    JArr(<<JObj(<<KA>>, <<JNum>>), JObj(<<KA>>, <<JUndef>>), JObj(<<KId>>, <<JNum>>)>>),
    JObj(<<KUser, KAdmin>>,
         <<JObj(<<KName>>, <<JObj(<<KId>>, <<JNum>>)>>),
           JObj(<<KNote>>, <<JObj(<<KId>>, <<JNum>>)>>)>>),
    JArr(<<JObj(<<KXundefined>>, <<JObj(<<KId>>, <<JNum>>)>>),
           JObj(<<KXundefined>>, <<JStr>>)>>),
    JObj(<<KMarked>>, <<JNum>>),
    JObj(<<KUser>>, <<JObj(<<KMarked, KDash>>, <<JStr, JNum>>)>>),
    JArr(<<JObj(<<KMarked>>, <<JNum>>)>>) }

Docs ==
  {JStr, JNum, JBool, JNull, JUndef}
    \cup SomeArrays \cup RootObjects \cup ArrayHolders \cup Examples

\* the documents run under every root name option
SmallDocs ==
  Examples \cup Arrays(ElemObjs, 1)
    \cup Objects(KeySeqs({KUser, KUsers, DefaultRootName}, 1), FieldVals)

(***************************************************************************)
(* The run of jsonToTS.                                                     *)
(***************************************************************************)
\* the file has not been written
NotWritten == <<"<not written>">>
\* process.exit has not been called
NoExit == 0 - 1
\* no content obtained yet
NoJson == [t |-> "none", ks |-> <<>>, vs |-> <<>>]

\* generateTypes has not been started
GenIdle ==
  /\ config = [typesOutputFile |-> TRUE, languageCodes |-> TRUE]
  /\ gpc = "idle"
  /\ jsonObject = NoJson
  /\ typeDeclarations = <<>>
  /\ outputFile = NotWritten
  /\ exitCode = NoExit

\* getNameById is not followed step by step
SearchIdle ==
  /\ nameList = <<>>
  /\ namePc = "off"
  /\ uniqueName = <<>>
  /\ uniqueI = 0
  /\ uniqueResult = <<>>
  /\ recorded = 0

\* no earlier call has returned
NoCall == [returned |-> FALSE, types |-> <<>>, names |-> <<>>, result |-> <<>>]

Init ==
  /\ \/ json \in Docs /\ rootNameOpt = NoOption
     \/ json \in SmallDocs /\ rootNameOpt \in RootNames
  /\ pc = "start"
  /\ types = <<>>
  /\ rootTypeId = <<>>
  /\ names = <<>>
  /\ descriptions = <<>>
  /\ result = <<>>
  /\ first = NoCall
  /\ GenIdle
  /\ SearchIdle

\* isArrayOfObjects without the `json.length > 0` conjunct
isArrayOfObjectsNoLength(x) ==
  /\ isArray(x)
  /\ \A i \in 1..Len(x.vs) : isObject(x.vs[i])

\* json.reduce((a, b) => a && isObject(b), true) on a non-empty array
isArrayOfObjects(x) ==
  /\ isArray(x)
  /\ Len(x.vs) > 0
  /\ \A i \in 1..Len(x.vs) : isObject(x.vs[i])

\* the root shape is supported
supported(x) == isObject(x) \/ isArrayOfObjects(x)

\* throw new Error('Only (Object) and (Array of Object) are supported')
Reject ==
  /\ pc = "start"
  /\ ~supported(json)
  /\ pc' = "rejected"
  /\ UNCHANGED <<json, rootNameOpt, types, rootTypeId, names, descriptions, result, first, genVars, searchVars>>

Validate ==
  /\ pc = "start"
  /\ supported(json)
  /\ pc' = "validated"
  /\ UNCHANGED <<json, rootNameOpt, types, rootTypeId, names, descriptions, result, first, genVars, searchVars>>

\* const typeStructure = getTypeStructure(json)
Build ==
  /\ pc = "validated"
  /\ LET r == getTypeStructure(json, <<>>)
     IN /\ types' = r.types
        /\ rootTypeId' = r.id
  /\ pc' = "built"
  /\ UNCHANGED <<json, rootNameOpt, names, descriptions, result, first, genVars, searchVars>>

\* optimizeTypeStructure(typeStructure)
Optimize ==
  /\ pc = "built"
  /\ types' = optimizeTypeStructure(rootTypeId, types)
  /\ pc' = "optimized"
  /\ UNCHANGED <<json, rootNameOpt, rootTypeId, names, descriptions, result, first, genVars, searchVars>>

\* getNames taking each descriptor it names out of the collection
NamesConsumingTypes ==
  /\ pc = "optimized"
  /\ LET r == getNames(rootTypeId, types, optionsRootName(rootNameOpt))
     IN IF r.err
        THEN pc' = "threw" /\ names' = names /\ types' = types
        ELSE /\ pc' = "named"
             /\ names' = r.nm
             /\ types' = SelectSeq(types,
                            LAMBDA d : d.id \notin {r.nm[i].id : i \in 1..Len(r.nm)})
  /\ UNCHANGED <<json, rootNameOpt, rootTypeId, descriptions, result, first, genVars, searchVars>>

\* const names = getNames(typeStructure, options.rootName)
Names ==
  /\ pc = "optimized"
  /\ LET r == getNames(rootTypeId, types, optionsRootName(rootNameOpt))
     IN IF r.err
        THEN pc' = "threw" /\ names' = names
        ELSE pc' = "named" /\ names' = r.nm
  /\ UNCHANGED <<json, rootNameOpt, types, rootTypeId, descriptions, result, first, genVars, searchVars>>

\* getInterfaceDescriptions(typeStructure, names)
Describe ==
  /\ pc = "named"
  /\ LET r == getInterfaceDescriptions(types, names)
     IN IF r.err
        THEN pc' = "threw" /\ descriptions' = descriptions
        ELSE pc' = "described" /\ descriptions' = r.list
  /\ UNCHANGED <<json, rootNameOpt, types, rootTypeId, names, result, first, genVars, searchVars>>

\* .map(description => getInterfaceStringFromDescription({...description, isRoot}))
Emit ==
  /\ pc = "described"
  /\ result' = [i \in 1..Len(descriptions) |->
                  getInterfaceStringFromDescription(descriptions[i],
                    optionsRootName(rootNameOpt) = descriptions[i].name)]
  /\ pc' = "done"
  /\ UNCHANGED <<json, rootNameOpt, types, rootTypeId, names, descriptions, first, genVars, searchVars>>

\* jsonToTS is called a second time with the same json and userOptions: the
\* consts of the new call are not assigned yet, what the first call built
\* stays behind
CallAgain ==
  /\ pc = "done"
  /\ ~first.returned
  /\ first' = [returned |-> TRUE, types |-> types, names |-> names, result |-> result]
  /\ pc' = "start"
  /\ types' = <<>>
  /\ rootTypeId' = <<>>
  /\ names' = <<>>
  /\ descriptions' = <<>>
  /\ result' = <<>>
  /\ UNCHANGED <<json, rootNameOpt, genVars, searchVars>>

Next ==
  Reject \/ Validate \/ Build \/ Optimize \/ Names \/ Describe \/ Emit \/ CallAgain

Spec == Init /\ [][Next]_vars

(***************************************************************************)
(* jsonToTS as one call, for its callers.                                   *)
(***************************************************************************)
\* the call threw
Threw == [threw |-> TRUE, list |-> <<>>]

\* the map over the interface descriptions
declarationsOf(d, rootName) ==
  IF d.err THEN Threw
  ELSE [threw |-> FALSE,
        list |-> [i \in 1..Len(d.list) |->
                    getInterfaceStringFromDescription(d.list[i], rootName = d.list[i].name)]]

declarationsNamed(ts, nm, rootName) ==
  IF nm.err THEN Threw ELSE declarationsOf(getInterfaceDescriptions(ts, nm.nm), rootName)

declarationsOptimized(ts, root, rootName) ==
  declarationsNamed(ts, getNames(root, ts, rootName), rootName)

declarationsBuilt(built, rootName) ==
  declarationsOptimized(optimizeTypeStructure(built.id, built.types), built.id, rootName)

jsonToTS(j, userOptions) ==
  IF ~supported(j) THEN Threw
  ELSE declarationsBuilt(getTypeStructure(j, <<>>), optionsRootName(userOptions))

(***************************************************************************)
(* The script generateTypes (scripts/generate-types.ts) and flattenJson.    *)
(***************************************************************************)
RECURSIVE flattenJson(_, _, _)
RECURSIVE flattenItems(_, _, _, _)

\* the forEach / for-in of flattenJson over the members from index i on
flattenItems(data, i, prefix, flat) ==
  IF i > Len(data.vs) THEN flat
  ELSE LET part == IF isArray(data) THEN IntToStr(i - 1) ELSE data.ks[i]
           newPrefix == IF prefix # <<>> THEN prefix \o <<".">> \o part ELSE part
       IN flattenItems(data, i + 1, prefix, flattenJson(data.vs[i], newPrefix, flat))

\* flat is `result`, the object filled so far, as [keys, vals]
flattenJson(data, prefix, flat) ==
  IF isArray(data) \/ isObject(data)
  THEN IF Len(data.vs) = 0
       THEN (IF prefix # <<>> THEN SetField(flat.keys, flat.vals, prefix, data)
             ELSE flat)
       ELSE flattenItems(data, 1, prefix, flat)
  ELSE IF prefix # <<>> THEN SetField(flat.keys, flat.vals, prefix, data)
  ELSE flat

\* flattenJson(data) with its default prefix and result, as a value
flattened(data) ==
  LET r == flattenJson(data, <<>>, [keys |-> <<>>, vals |-> <<>>])
  IN JObj(r.keys, r.vals)

\* what JSON.parse of the local file or response.data of the request can be
Contents ==
  {JStr, JNum, JNull} \cup Examples \cup RootObjects
    \cup Arrays({JStr, JNum} \cup ElemObjs, MaxElems)

\* typeDeclarations.join('\n\n')
outputContent(decls) == Join(decls, <<"\n", "\n">>)

GenInit ==
  /\ config \in [typesOutputFile : BOOLEAN, languageCodes : BOOLEAN]
  /\ gpc = "started"
  /\ jsonObject = NoJson
  /\ typeDeclarations = <<>>
  /\ outputFile = NotWritten
  /\ exitCode = NoExit
  /\ json = NoJson
  /\ rootNameOpt = ContentRoot
  /\ pc = "start"
  /\ types = <<>>
  /\ rootTypeId = <<>>
  /\ names = <<>>
  /\ descriptions = <<>>
  /\ result = <<>>
  /\ first = NoCall
  /\ SearchIdle

\* the process ends with the code of a success
exitWithCodeZero ==
  /\ gpc' = "exited"
  /\ exitCode' = 0

\* the catch block, and the configuration errors: process.exit(1)
exitWithError ==
  /\ gpc' = "exited"
  /\ exitCode' = 1

\* 'typesOutputFile' is missing, or 'languageCodes' is not a non-empty array
ConfigError ==
  /\ gpc = "started"
  /\ ~config.typesOutputFile \/ ~config.languageCodes
  /\ exitWithError
  /\ UNCHANGED <<config, jsonObject, typeDeclarations, outputFile, coreVars, searchVars>>

\* the content is read from the local file or fetched, and flattened
ObtainJson ==
  /\ gpc = "started"
  /\ config.typesOutputFile /\ config.languageCodes
  /\ \E data \in Contents : jsonObject' = flattened(data)
  /\ gpc' = "obtained"
  /\ UNCHANGED <<config, typeDeclarations, outputFile, exitCode, coreVars, searchVars>>

\* the directory cannot be accessed, the file is missing or does not parse,
\* contentKey is missing, or the request fails: the error is thrown again
ObtainError ==
  /\ gpc = "started"
  /\ config.typesOutputFile /\ config.languageCodes
  /\ exitWithError
  /\ UNCHANGED <<config, jsonObject, typeDeclarations, outputFile, coreVars, searchVars>>

\* the validation of jsonObject, the call of jsonToTS and the test of its list
Generate ==
  /\ gpc = "obtained"
  /\ LET r == jsonToTS(jsonObject, ContentRoot)
     IN IF ~(isObject(jsonObject) \/ isArray(jsonObject)) \/ r.threw \/ Len(r.list) = 0
        THEN exitWithError /\ typeDeclarations' = typeDeclarations
        ELSE /\ typeDeclarations' = r.list
             /\ gpc' = "generated"
             /\ exitCode' = exitCode
  /\ UNCHANGED <<config, jsonObject, outputFile, coreVars, searchVars>>

\* fs.mkdir rejects
MkdirError ==
  /\ gpc = "generated"
  /\ exitWithError
  /\ UNCHANGED <<config, jsonObject, typeDeclarations, outputFile, coreVars, searchVars>>

\* fs.mkdir and fs.writeFile resolve
WriteFile ==
  /\ gpc = "generated"
  /\ outputFile' = outputContent(typeDeclarations)
  /\ gpc' = "finished"
  /\ UNCHANGED <<config, jsonObject, typeDeclarations, exitCode, coreVars, searchVars>>

\* fs.writeFile rejects: the file is untouched or left truncated
WriteFileError ==
  /\ gpc = "generated"
  /\ outputFile' \in {outputFile, <<>>}
  /\ exitWithError
  /\ UNCHANGED <<config, jsonObject, typeDeclarations, coreVars, searchVars>>

GenNext ==
  \/ ConfigError \/ ObtainJson \/ ObtainError \/ Generate
  \/ MkdirError \/ WriteFile \/ WriteFileError

GenSpec == GenInit /\ [][GenNext]_vars

(***************************************************************************)
(* getNameById for an object shape that has no entry yet, one step per loop *)
(* iteration of uniqueByIncrement.                                          *)
(***************************************************************************)
\* the keys that lead to the shapes named step by step
SearchKeys ==
  { KUser, KUsers, KDigits,
    <<"u","s","e","r","3">>,       \* user3
    <<>>,                          \* the empty key
    <<"$","-">>,                   \* symbols only
    <<"m","y"," ","k","e","y">> }  \* with white space

\* the name list after n shapes reached by the key were named in a row
Taken(keyName, n) ==
  [k \in 1..n |->
     IF k = 1 THEN candidateName(keyName, FALSE)
     ELSE candidateName(keyName, FALSE) \o IntToStr(k)]

SearchInit ==
  /\ nameList \in {<<>>, Taken(KUser, MaxAttempts)}
  /\ namePc = "idle"
  /\ uniqueName = <<>>
  /\ uniqueI = 0
  /\ uniqueResult = <<>>
  /\ recorded = 0
  /\ GenIdle
  /\ json = NoJson
  /\ rootNameOpt = NoOption
  /\ pc = "start"
  /\ types = <<>>
  /\ rootTypeId = <<>>
  /\ names = <<>>
  /\ descriptions = <<>>
  /\ result = <<>>
  /\ first = NoCall

\* getNameById is called for a new object shape: no entry is found for its
\* id, the candidate is derived from the key and uniqueByIncrement is entered
EnterGetNameById ==
  /\ namePc = "idle"
  /\ recorded < MaxNamed
  /\ \E keyName \in SearchKeys, isInsideArray \in BOOLEAN :
       uniqueName' = candidateName(keyName, isInsideArray)
  /\ uniqueI' = 0
  /\ namePc' = "loop"
  /\ UNCHANGED <<nameList, uniqueResult, recorded, coreVars, genVars>>

\* one iteration of the for loop
Attempt ==
  /\ namePc = "loop"
  /\ uniqueI < MaxAttempts
  /\ LET nameProposal == IF uniqueI = 0 THEN uniqueName
                         ELSE uniqueName \o IntToStr(uniqueI + 1)
     IN IF nameProposal \notin Range(nameList)
        THEN /\ uniqueResult' = nameProposal
             /\ namePc' = "returned"
             /\ uniqueI' = uniqueI
        ELSE /\ uniqueI' = uniqueI + 1
             /\ UNCHANGED <<uniqueResult, namePc>>
  /\ UNCHANGED <<nameList, uniqueName, recorded, coreVars, genVars>>

\* the end of the loop raises an error and nothing is recorded
LoopEndsWithError ==
  /\ namePc = "loop"
  /\ uniqueI >= MaxAttempts
  /\ namePc' = "threw"
  /\ UNCHANGED <<nameList, uniqueName, uniqueI, uniqueResult, recorded,
                 coreVars, genVars>>

\* the loop condition fails: the function ends without a return statement
LoopEnds ==
  /\ namePc = "loop"
  /\ uniqueI >= MaxAttempts
  /\ uniqueResult' = UndefinedName
  /\ namePc' = "returned"
  /\ UNCHANGED <<nameList, uniqueName, uniqueI, recorded, coreVars, genVars>>

\* nameMap.push({ id, name }): the name joins the names of the list
Push ==
  /\ namePc = "returned"
  /\ nameList' = Append(nameList, uniqueResult)
  /\ recorded' = recorded + 1
  /\ namePc' = "idle"
  /\ UNCHANGED <<uniqueName, uniqueI, uniqueResult, coreVars, genVars>>

SearchNext == EnterGetNameById \/ Attempt \/ LoopEnds \/ Push

\* the call runs to its end once entered; nothing obliges a further call
SearchSpec ==
  /\ SearchInit
  /\ [][SearchNext]_vars
  /\ WF_vars(Attempt) /\ WF_vars(LoopEnds) /\ WF_vars(Push)

(***************************************************************************)
(* getNames and what follows it, applied to descriptor collections given as *)
(* such: a root object with one field that holds an array descriptor, or an *)
(* array of that array descriptor.                                          *)
(***************************************************************************)
LeafId  == Digest(1)
InnerId == Digest(2)
OuterId == Digest(3)
RootId  == Digest(4)

\* what the array descriptor may hold
ElemRefs == {TString, TNumber, LeafId}

\* arrayOfTypes and isUnion of the array descriptor: unflagged with no or one
\* element shape, flagged with none or two
ArrayShapes ==
  {[vals |-> <<>>, isUnion |-> u] : u \in BOOLEAN}
    \cup {[vals |-> <<x>>, isUnion |-> FALSE] : x \in ElemRefs}
    \cup {[vals |-> <<p[1], p[2]>>, isUnion |-> TRUE] :
            p \in {q \in ElemRefs \X ElemRefs : q[1] # q[2]}}

\* the collection: the descriptors the root reaches, children first
Collection(shape, wrapped, key) ==
  (IF LeafId \in Range(shape.vals)
   THEN <<ObjDesc(LeafId, <<KId>>, <<TNumber>>)>> ELSE <<>>)
    \o <<ArrDesc(InnerId, shape.vals, shape.isUnion)>>
    \o (IF wrapped THEN <<ArrDesc(OuterId, <<InnerId>>, FALSE)>> ELSE <<>>)
    \o <<ObjDesc(RootId, <<key>>, <<IF wrapped THEN OuterId ELSE InnerId>>)>>

NameInit ==
  /\ \E shape \in ArrayShapes, wrapped \in BOOLEAN, key \in {KTags, KUsers} :
       types = Collection(shape, wrapped, key)
  /\ rootTypeId = RootId
  /\ rootNameOpt \in {NoOption, ContentRoot}
  /\ pc = "optimized"
  /\ json = NoJson
  /\ names = <<>>
  /\ descriptions = <<>>
  /\ result = <<>>
  /\ first = NoCall
  /\ GenIdle
  /\ SearchIdle

NameNext == Names \/ Describe \/ Emit

NameSpec == NameInit /\ [][NameNext]_vars

(***************************************************************************)
(* Notions the properties are stated with.                                  *)
(***************************************************************************)
\* the value is a JSON value: it holds no `undefined`
RECURSIVE IsJson(_)
IsJson(v) == v.t # "undef" /\ \A i \in 1..Len(v.vs) : IsJson(v.vs[i])

\* a plain object, or a non-empty array whose members are all plain objects
AcceptedRoot(v) ==
  \/ v.t = "obj"
  \/ /\ v.t = "arr"
     /\ v.vs # <<>>
     /\ \A i \in 1..Len(v.vs) : v.vs[i].t = "obj"

\* the declaration string carries the export qualifier
IsExported(decl) == StartsWith(decl, ExportKw)

\* the interface name written in a declaration string
InterfaceNameOf(decl) ==
  LET body == IF IsExported(decl) THEN SubSeq(decl, Len(ExportKw) + 1, Len(decl)) ELSE decl
      rest == SubSeq(body, Len(InterfaceKw) + 2, Len(body))
  IN SubSeq(rest, 1, IndexOfSub(rest, <<" ", "{">>) - 1)

\* the root name the run is configured with
ConfiguredRootName == IF rootNameOpt = NoOption THEN DefaultRootName ELSE rootNameOpt

\* the name recorded for the shape id
RecordedName(id) == names[CHOOSE i \in 1..Len(names) : names[i].id = id].name

\* the id of the top-level shape: the root object, or the element of the root array
TopShapeId == IF json.t = "obj" THEN rootTypeId ELSE findTypeById(rootTypeId, types).vals[1]

(***************************************************************************)
(* C1: an unsupported root (neither a plain object nor a non-empty array of *)
(* plain objects) makes jsonToTS throw its error with no descriptor built   *)
(* and no declaration returned; a supported root never raises that error.   *)
(***************************************************************************)
C1_RejectsUnsupportedRoot ==
  /\ (~AcceptedRoot(json) /\ pc # "start") =>
        /\ pc = "rejected"
        /\ types = <<>> /\ names = <<>> /\ descriptions = <<>> /\ result = <<>>
  /\ AcceptedRoot(json) => pc # "rejected"

C1_Witness ==
  /\ pc = "rejected"
  /\ json.t = "arr" /\ Len(json.vs) = 2
  /\ json.vs[1].t = "obj" /\ json.vs[2].t # "obj"

(***************************************************************************)
(* C2: when jsonToTS has returned, exactly one declaration of the list is   *)
(* exported, and it is the interface named by the configured root name.     *)
(***************************************************************************)
C2_SingleExportIsRootName ==
  pc = "done" =>
    /\ Cardinality({i \in 1..Len(result) : IsExported(result[i])}) = 1
    /\ \A i \in 1..Len(result) :
         IsExported(result[i]) => InterfaceNameOf(result[i]) = ConfiguredRootName

(***************************************************************************)
(* C3: for a root object the name recorded by getNames for the root shape   *)
(* is the configured root name, and no other shape's entry carries it.      *)
(***************************************************************************)
C3_RootShapeNamedRootName ==
  (pc \in {"named", "described", "done"} /\ json.t = "obj") =>
    \A i \in 1..Len(names) :
      (names[i].id = rootTypeId) <=> (names[i].name = ConfiguredRootName)

\* the names the members' fields have, each once, in order of first occurrence
MemberKeys(members) == OnlyUnique(Concat([i \in 1..Len(members) |-> members[i].ks]))

\* the member has the field
HasKey(member, k) == k \in Range(member.ks)

\* the value of the member's field k
ValueAt(member, k) == member.vs[CHOOSE i \in 1..Len(member.ks) : member.ks[i] = k]

\* the field is present in every member
InAll(members, k) == \A i \in 1..Len(members) : HasKey(members[i], k)

\* the type written for a scalar value
ScalarTypeText(v) ==
  CASE v.t = "str" -> <<"s","t","r","i","n","g">>
    [] v.t = "num" -> <<"n","u","m","b","e","r">>
    [] v.t = "bool" -> <<"b","o","o","l","e","a","n">>
    [] OTHER -> <<"n","u","l","l">>

\* a bare identifier: a letter or underscore, then letters, digits, underscores
BareIdentifier(k) ==
  /\ k # <<>>
  /\ \A i \in 1..Len(k) :
       \/ IsLetter(k[i]) \/ k[i] = "_"
       \/ (i > 1 /\ IsDigit(k[i]))

\* the key as the claim wants it written
WrittenKey(k, optional) ==
  (IF BareIdentifier(k) THEN k ELSE <<"'">> \o k \o <<"'">>)
    \o (IF optional THEN <<"?">> ELSE <<>>)

\* the run has returned for a JSON root array of objects
DoneForObjectArray ==
  /\ pc = "done"
  /\ json.t = "arr" /\ AcceptedRoot(json) /\ IsJson(json)

\* the run has returned for a JSON root object
DoneForObject == pc = "done" /\ json.t = "obj" /\ IsJson(json)

(***************************************************************************)
(* C4: the first declaration returned is the declaration of the top-level   *)
(* shape: the root object's interface, or for a root array of objects the   *)
(* interface of the merged element shape, with that shape's fields.         *)
(***************************************************************************)
C4_FirstDeclarationIsTopShape ==
  pc = "done" =>
    /\ result # <<>>
    /\ InterfaceNameOf(result[1]) = RecordedName(TopShapeId)
    /\ Len(descriptions[1].keys) =
         IF json.t = "obj" THEN Len(json.ks) ELSE Len(MemberKeys(json.vs))

C4_Witness ==
  /\ pc = "done"
  /\ json.t = "arr"
  /\ Len(result) = 2
  /\ Len(descriptions[1].keys) = 2

(***************************************************************************)
(* C5: the names recorded by one run of getNames are pairwise distinct:     *)
(* after every call of getNameById no two entries of the name list carry    *)
(* the same name.                                                           *)
(***************************************************************************)
C5_NamesPairwiseDistinct ==
  /\ pc \in {"named", "described", "done"} =>
       \A i, j \in 1..Len(names) : i # j => names[i].name # names[j].name
  /\ namePc = "idle" =>
       \A i, j \in 1..Len(nameList) : i # j => nameList[i] # nameList[j]

(***************************************************************************)
(* C6: fields of the root object that hold objects of one shape resolve to  *)
(* one ShapeId, are written with one type name, and that shape has exactly  *)
(* one name entry and one declaration; no object shape is declared twice.   *)
(***************************************************************************)
C6_SameShapeOneDeclaration ==
  DoneForObject =>
    /\ \A i, j \in 1..Len(json.ks) :
         (json.vs[i].t = "obj" /\ json.vs[i] = json.vs[j]) =>
           LET root == findTypeById(rootTypeId, types)
               sid == root.vals[i]
           IN /\ root.vals[j] = sid
              /\ descriptions[1].vals[i] = descriptions[1].vals[j]
              /\ Cardinality({k \in 1..Len(names) : names[k].id = sid}) = 1
              /\ Cardinality({k \in 1..Len(result) :
                    InterfaceNameOf(result[k]) = descriptions[1].vals[i]}) = 1
    /\ Len(result) = Cardinality({k \in 1..Len(types) : ~types[k].isArr})

C6_Witness ==
  /\ pc = "done"
  /\ json.t = "obj" /\ json.ks = <<KUser, KAdmin>>
  /\ json.vs[1].t = "obj" /\ json.vs[1] = json.vs[2]
  /\ Len(result) = 2
  /\ descriptions[1].vals = <<descriptions[2].name, descriptions[2].name>>

(***************************************************************************)
(* C7: for a JSON root array of objects the merged element interface has    *)
(* one field per field name of the members, in order of first occurrence;   *)
(* a field carries `?` exactly when some member lacks it, and a field that  *)
(* holds one scalar kind in every member that has it is typed with it.      *)
(***************************************************************************)
C7_MergedFieldsOptionalIffAbsent ==
  DoneForObjectArray =>
    LET ks == MemberKeys(json.vs)
        d == descriptions[1]
    IN /\ Len(d.keys) = Len(ks)
       /\ \A i \in 1..Len(ks) :
            /\ EndsWith(d.keys[i], <<"?">>) <=> ~InAll(json.vs, ks[i])
            /\ (IF EndsWith(d.keys[i], <<"?">>) THEN DropLast(d.keys[i], 1) ELSE d.keys[i])
                 \in {ks[i], <<"'">> \o ks[i] \o <<"'">>}
            /\ \A v \in {JStr, JNum} :
                 (\A m \in 1..Len(json.vs) :
                    HasKey(json.vs[m], ks[i]) => ValueAt(json.vs[m], ks[i]) = v)
                   => d.vals[i] = ScalarTypeText(v)

\* the branches of a type expression: its parts between the ' | ' that stand
\* outside every pair of parentheses
RECURSIVE BranchesFrom(_, _, _, _)
BranchesFrom(rest, depth, cur, acc) ==
  IF rest = <<>> THEN Append(acc, cur)
  ELSE IF depth = 0 /\ StartsWith(rest, <<" ", "|", " ">>)
  THEN BranchesFrom(SubSeq(rest, 4, Len(rest)), 0, <<>>, Append(acc, cur))
  ELSE BranchesFrom(Tail(rest),
                    IF Head(rest) = "(" THEN depth + 1
                    ELSE IF Head(rest) = ")" /\ depth > 0 THEN depth - 1
                    ELSE depth,
                    Append(cur, Head(rest)), acc)

TopLevelBranches(type) == BranchesFrom(type, 0, <<>>, <<>>)

\* the type expression is a union with an `undefined` branch
HasUndefinedBranch(type) ==
  LET bs == TopLevelBranches(type)
  IN Len(bs) > 1 /\ \E i \in 1..Len(bs) : bs[i] = <<"u","n","d","e","f","i","n","e","d">>

\* the entries of the name list that belong to object shapes, in order
ObjectEntries == SelectSeq(names, LAMBDA e : ~findTypeById(e.id, types).isArr)

\* the name or token a field value of a descriptor resolves to
Resolved(v) == IF Len(v) = HashLen THEN RecordedName(v) ELSE v

(***************************************************************************)
(* C8: a field whose resolved type is a union (not an array) with an        *)
(* `undefined` branch is written with an optional key and the union of the  *)
(* other branches; no written field type is a union with an `undefined`     *)
(* branch.                                                                  *)
(***************************************************************************)
C8_UndefinedBranchBecomesOptional ==
  pc \in {"described", "done"} =>
    \A k \in 1..Len(descriptions) :
      LET d == descriptions[k]
          shape == findTypeById(ObjectEntries[k].id, types)
      IN \A i \in 1..Len(d.keys) :
           /\ ~HasUndefinedBranch(d.vals[i])
           /\ (Len(shape.keys) = Len(d.keys) /\ HasUndefinedBranch(Resolved(shape.vals[i]))) =>
                /\ EndsWith(d.keys[i], <<"?">>)
                /\ d.vals[i] =
                     Join(SelectSeq(TopLevelBranches(Resolved(shape.vals[i])),
                                    LAMBDA b : b # <<"u","n","d","e","f","i","n","e","d">>),
                          <<" ", "|", " ">>)

(***************************************************************************)
(* C9: a field key that is a bare identifier is written as it is, any other *)
(* key between single quotes; the `?` of an optional field follows the      *)
(* (possibly quoted) key and precedes the colon.                            *)
(***************************************************************************)
C9_KeysQuotedUnlessIdentifiers ==
  /\ DoneForObject =>
       /\ Len(descriptions[1].keys) = Len(json.ks)
       /\ \A i \in 1..Len(json.ks) :
            /\ descriptions[1].keys[i] = WrittenKey(json.ks[i], FALSE)
            /\ Includes(result[1],
                 <<"\n", " ", " ">> \o WrittenKey(json.ks[i], FALSE) \o <<":", " ">>)
  /\ DoneForObjectArray =>
       LET ks == MemberKeys(json.vs)
       IN /\ Len(descriptions[1].keys) = Len(ks)
          /\ \A i \in 1..Len(ks) :
               \E optional \in BOOLEAN :
                 /\ descriptions[1].keys[i] = WrittenKey(ks[i], optional)
                 /\ Includes(result[1],
                      <<"\n", " ", " ">> \o WrittenKey(ks[i], optional) \o <<":", " ">>)

(***************************************************************************)
(* C10: for {"id":1,"tags":["a","b"]} and no options jsonToTS returns the   *)
(* single declaration                                                       *)
(*   export interface RootObject {\n  id: number;\n  tags: string[];\n}     *)
(***************************************************************************)
C10_Expected ==
  << <<"e","x","p","o","r","t"," ","i","n","t","e","r","f","a","c","e"," ",
       "R","o","o","t","O","b","j","e","c","t"," ","{","\n",
       " "," ","i","d",":"," ","n","u","m","b","e","r",";","\n",
       " "," ","t","a","g","s",":"," ","s","t","r","i","n","g","[","]",";","\n",
       "}">> >>

C10_IsInput ==
  /\ json = [t |-> "obj", ks |-> <<KId, KTags>>,
             vs |-> <<JNum, [t |-> "arr", ks |-> <<>>, vs |-> <<JStr, JStr>>]>>]
  /\ rootNameOpt = NoOption

C10_EndToEndExample == (C10_IsInput /\ pc = "done") => result = C10_Expected

C10_Witness == C10_IsInput /\ pc = "done" /\ Len(result) = 1

Children(d) == {d.vals[i] : i \in {k \in 1..Len(d.vals) : Len(d.vals[k]) = HashLen}}

\* the collection as the builder left it, before the optimizer ran
BuiltTypes == getTypeStructure(json, <<>>).types

\* the optimizer has run in this call
AfterOptimize == pc \in {"optimized", "named", "described", "done", "threw"}

(***************************************************************************)
(* C12: after optimizeTypeStructure every digest that is a field value or   *)
(* an element of a descriptor of the collection is the id of a descriptor   *)
(* of the collection, and every id of the name list is found in it too.     *)
(***************************************************************************)
C12_NoDanglingReference ==
  AfterOptimize =>
    /\ \A k \in 1..Len(types) :
         \A c \in Children(types[k]) : \E m \in 1..Len(types) : types[m].id = c
    /\ \E m \in 1..Len(types) : types[m].id = rootTypeId
    /\ \A n \in 1..Len(names) : \E m \in 1..Len(types) : types[m].id = names[n].id

C12_Witness ==
  /\ pc = "named"
  /\ Len(types) = 3
  /\ Len(BuiltTypes) = 7
  /\ \E k \in 1..Len(types) :
       /\ ~types[k].isArr /\ types[k].id # rootTypeId
       /\ Children(types[k]) # {}

\* the ids that a path of at most n references leads to from the root
RECURSIVE WithinSteps(_, _)
WithinSteps(n, ts) ==
  IF n = 0 THEN {rootTypeId}
  ELSE LET near == WithinSteps(n - 1, ts)
       IN near \cup UNION {Children(ts[k]) : k \in {m \in 1..Len(ts) : ts[m].id \in near}}

(***************************************************************************)
(* C13: after optimizeTypeStructure the collection holds exactly the        *)
(* descriptors the builder made that a path of references leads to from the *)
(* root id, each unaltered and in the builder's order; every other          *)
(* descriptor, orphaned by merging directly or through an orphan, is gone.  *)
(***************************************************************************)
C13_ExactlyReachableKept ==
  AfterOptimize =>
    LET built == BuiltTypes
        reachable == WithinSteps(Len(built), built)
    IN types = SelectSeq(built, LAMBDA d : d.id \in reachable)

C13_Witness ==
  /\ pc = "optimized"
  /\ json.t = "arr" /\ Len(json.vs) = 2
  /\ Len(types) = 3
  /\ \E k \in 1..Len(BuiltTypes) :
       \* an orphan that only an orphan refers to
       /\ BuiltTypes[k].id \notin {types[m].id : m \in 1..Len(types)}
       /\ \E j \in 1..Len(BuiltTypes) :
            /\ BuiltTypes[k].id \in Children(BuiltTypes[j])
            /\ BuiltTypes[j].id \notin {types[m].id : m \in 1..Len(types)}

\* getNames has returned in this call
AfterNames == pc \in {"named", "described", "done"}

\* the entries of the name list recorded for the id
EntriesOf(id) == {n \in 1..Len(names) : names[n].id = id}

(***************************************************************************)
(* C14: when getNames has returned, every object or array shape reachable   *)
(* from the root has exactly one entry in the name list, also a shape that  *)
(* several parents refer to, and every entry's id is the digest of such a   *)
(* shape, never a primitive token.                                          *)
(***************************************************************************)
C14_OneEntryPerReachableShape ==
  AfterNames =>
    /\ \A id \in WithinSteps(Len(types), types) : Cardinality(EntriesOf(id)) = 1
    /\ \A n \in 1..Len(names) :
         /\ Len(names[n].id) = HashLen
         /\ names[n].id \in WithinSteps(Len(types), types)
         /\ names[n].id \notin {TString, TNumber, TBoolean, TNull, TUndefined, TAny}

C14_Witness ==
  /\ pc = "named"
  /\ json.t = "obj" /\ Len(json.ks) = 2
  /\ json.vs[1].t = "obj" /\ json.vs[1] = json.vs[2]
  /\ LET root == findTypeById(rootTypeId, types)
     IN /\ root.vals[1] = root.vals[2]
        /\ Cardinality(EntriesOf(root.vals[1])) = 1
  /\ Len(names) = 2

\* the entries of the name list that belong to array shapes (not unions)
ArrayEntries ==
  SelectSeq(names, LAMBDA e : LET d == findTypeById(e.id, types)
                              IN d.isArr /\ ~d.isUnion)

(***************************************************************************)
(* C15: jsonToTS returns one declaration for every reachable object shape,  *)
(* in the order of the name list, and none for an array shape: the name of  *)
(* an array shape is no declaration's name and is written as the type of    *)
(* the fields that hold the array.                                          *)
(***************************************************************************)
C15_DeclarationsAreObjectShapes ==
  pc = "done" =>
    /\ Len(result) = Cardinality({k \in 1..Len(types) : ~types[k].isArr})
    /\ Len(result) = Len(ObjectEntries)
    /\ \A k \in 1..Len(result) : InterfaceNameOf(result[k]) = ObjectEntries[k].name
    /\ \A a \in 1..Len(ArrayEntries) :
         /\ \A k \in 1..Len(result) : InterfaceNameOf(result[k]) # ArrayEntries[a].name
         /\ \A k \in 1..Len(descriptions) :
              LET shape == findTypeById(ObjectEntries[k].id, types)
              IN \A i \in 1..Len(shape.vals) :
                   shape.vals[i] = ArrayEntries[a].id =>
                     /\ descriptions[k].vals[i] = ArrayEntries[a].name
                     /\ Includes(result[k], <<":", " ">> \o ArrayEntries[a].name \o <<";">>)

C15_Witness ==
  /\ pc = "done"
  /\ json.t = "obj" /\ json.ks = <<KUsers>>
  /\ json.vs[1].t = "arr" /\ Len(json.vs[1].vs) = 2
  /\ Len(result) = 2
  /\ Len(ArrayEntries) = 1
  /\ descriptions[1].vals = <<descriptions[2].name \o <<"[", "]">>>>

\* the lengths of the strings of a list, added up
RECURSIVE SumLen(_)
SumLen(ss) == IF ss = <<>> THEN 0 ELSE Len(Head(ss)) + SumLen(Tail(ss))

\* the text holds every string of the list, two line feeds between neighbours
IsCompleteJoin(text, ss) ==
  /\ Len(text) = SumLen(ss) + 2 * (Len(ss) - 1)
  /\ \A i \in 1..Len(ss) :
       LET from == SumLen(SubSeq(ss, 1, i - 1)) + 2 * (i - 1)
       IN /\ SubSeq(text, from + 1, from + Len(ss[i])) = ss[i]
          /\ i < Len(ss) => SubSeq(text, from + Len(ss[i]) + 1, from + Len(ss[i]) + 2)
                               = <<"\n", "\n">>

(***************************************************************************)
(* C16: generateTypes leaves the types file unwritten until jsonToTS has    *)
(* returned a non-empty list; when the script ends without such a list (the *)
(* configuration is unusable, the content cannot be obtained, jsonToTS      *)
(* throws or returns nothing) the file is unwritten and the exit code is 1; *)
(* when the script finishes the file holds the complete joined list.        *)
(***************************************************************************)
C16_NoOutputOnFailure ==
  /\ gpc \in {"started", "obtained", "generated"} =>
       (outputFile = NotWritten /\ exitCode = NoExit)
  /\ typeDeclarations = <<>> => outputFile = NotWritten
  /\ gpc = "exited" => exitCode = 1
  /\ (gpc = "generated" \/ outputFile # NotWritten) =>
       /\ typeDeclarations # <<>>
       /\ jsonToTS(jsonObject, ContentRoot) = [threw |-> FALSE, list |-> typeDeclarations]
  /\ gpc = "finished" =>
       /\ IsCompleteJoin(outputFile, typeDeclarations)
       /\ exitCode = NoExit

C16_Witness ==
  /\ gpc = "exited"
  /\ config.typesOutputFile /\ config.languageCodes
  /\ jsonObject = NoJson
  /\ typeDeclarations = <<>>
  /\ outputFile = NotWritten
  /\ exitCode = 1

\* the position at which the entry of the id was recorded (getNames reverses
\* the list, so the entry recorded first stands last)
RecordedAt(id) == Len(names) + 1 - (CHOOSE n \in 1..Len(names) : names[n].id = id)

(***************************************************************************)
(* C17: every digest among the field values or elements of a shape with a   *)
(* name entry has a name entry that was recorded before the shape's own;    *)
(* so the name of an array element is always found in the list, and no run  *)
(* of getNames ends with the error of deriving an object name without key.  *)
(***************************************************************************)
C17_ChildrenNamedBeforeParents ==
  /\ pc # "threw"
  /\ AfterNames =>
       \A n \in 1..Len(names) :
         \A c \in Children(findTypeById(names[n].id, types)) :
           /\ EntriesOf(c) # {}
           /\ RecordedAt(c) < RecordedAt(names[n].id)

C17_Witness ==
  /\ pc = "named"
  /\ Len(names) = 3
  /\ findTypeById(names[2].id, types).isArr
  /\ Children(findTypeById(names[1].id, types)) = {names[2].id}
  /\ Children(findTypeById(names[2].id, types)) = {names[3].id}
  /\ RecordedAt(names[3].id) = 1

\* the names of the entries recorded so far
UsedNames == Range(nameList)

\* the candidate followed by the integer k
Suffixed(k) == uniqueName \o IntToStr(k)

(***************************************************************************)
(* C18: the collision search returns the bare candidate when no recorded    *)
(* entry has it as its name, and otherwise the candidate followed by the    *)
(* smallest integer k >= 2 for which no recorded entry has that name.       *)
(***************************************************************************)
C18_SmallestFreeSuffix ==
  namePc = "returned" =>
    IF uniqueName \notin UsedNames THEN uniqueResult = uniqueName
    ELSE \E k \in 2..(Len(nameList) + 2) :
           /\ uniqueResult = Suffixed(k)
           /\ Suffixed(k) \notin UsedNames
           /\ \A j \in 2..(k - 1) : Suffixed(j) \in UsedNames

\* the candidates the search tries: the bare name, then the suffixes 2 to 1000
Tried == {uniqueName} \cup {Suffixed(k) : k \in 2..1000}

\* what holds in every state of the search
C19_SearchState ==
  /\ namePc # "threw"
  /\ uniqueI <= 1000
  /\ namePc = "returned" =>
       /\ (uniqueResult = UndefinedName) <=> (Tried \subseteq UsedNames)
       /\ uniqueResult # UndefinedName =>
            /\ uniqueI < 1000
            /\ uniqueResult \in Tried \ UsedNames
  /\ (namePc = "idle" /\ recorded > 0) =>
       nameList[Len(nameList)] = uniqueResult

(***************************************************************************)
(* C19: the collision search tries at most 1000 candidates (the bare name,  *)
(* then the suffixes 2 to 1000), every iteration returns or moves on to the *)
(* next candidate, and the call always ends; it returns no name exactly     *)
(* when all 1000 candidates are in use, and the entry is then recorded      *)
(* with that missing name; no error stops the run.                          *)
(***************************************************************************)
C19_BoundedSearchRecordsNameless ==
  /\ []C19_SearchState
  /\ [][namePc = "loop" => (namePc' = "returned" \/ uniqueI' = uniqueI + 1)]_vars
  /\ (namePc = "loop") ~> (namePc = "idle")

C19_Witness ==
  /\ namePc = "idle"
  /\ recorded = 1
  /\ uniqueI = 1000
  /\ Len(nameList) = 1001
  /\ nameList[1001] = UndefinedName

\* a valid bare identifier that starts with an uppercase letter or underscore
IsTypeIdentifier(n) ==
  /\ n # <<>>
  /\ IsUpper(n[1]) \/ n[1] = "_"
  /\ \A i \in 2..Len(n) : IsLetter(n[i]) \/ IsDigit(n[i])

(***************************************************************************)
(* C20: every name given to an object shape, whatever the key (empty,       *)
(* symbols only, digit first, with white space), is a valid bare            *)
(* identifier: non-empty, first an uppercase letter or an underscore, then  *)
(* letters and digits only; so is the candidate the search starts from.     *)
(***************************************************************************)
C20_NamesAreIdentifiers ==
  /\ namePc \in {"loop", "returned"} => IsTypeIdentifier(uniqueName)
  /\ namePc = "idle" =>
       \A k \in 1..Len(nameList) : IsTypeIdentifier(nameList[k])
\* the name a key turns into once the optional marker is gone: PascalCase,
\* invalid characters removed, PascalCase again
NameOfKey(k) == pascalCase(normalizeInvalidTypeName(pascalCase(k)))

\* the key without the optional marker
BareKey(key) == IF EndsWith(key, OptSuffix) THEN DropLast(key, 3) ELSE key

\* the name, or the name followed by a collision suffix
MaybeSuffixed(n) == {n} \cup {n \o IntToStr(k) : k \in 2..9}

\* the ids reached through the fields of parent that stand before field i
ReachedBefore(parent, i) ==
  LET firsts == {parent.vals[j] : j \in 1..(i - 1)}
      present == {v \in firsts : isHash(v) /\ ~findTypeById(v, types).none}
  IN IF present = {} THEN {} ELSE Reach(present, types)

\* the object shapes first reached through a field of parent are named from
\* that field's key: as it stands for a field value, singularized for the
\* element of the array the field holds
FieldsNamedFromKeys(parent) ==
  \A i \in 1..Len(parent.keys) :
    LET c == parent.vals[i]
        d == findTypeById(c, types)
        key == BareKey(parent.keys[i])
    IN /\ (isHash(c) /\ ~d.isArr /\ c \notin ReachedBefore(parent, i)) =>
            RecordedName(c) \in MaybeSuffixed(NameOfKey(key))
       /\ (isHash(c) /\ d.isArr /\ ~d.isUnion /\ isHash(d.vals[1])) =>
            LET e == d.vals[1]
                ed == findTypeById(e, types)
            IN (~ed.isArr /\ e \notin ReachedBefore(parent, i)) =>
                 RecordedName(e) \in MaybeSuffixed(NameOfKey(singular(key)))

(***************************************************************************)
(* C21: the key an object shape is named from is singularized exactly when  *)
(* the shape is first reached as the element of an array: the shapes first  *)
(* reached as values of the fields of the top-level shape carry the name of *)
(* the key as it stands, those first reached as elements of the arrays in   *)
(* these fields the name of the singularized key, and the element of a root *)
(* array the name of the singularized root name; the optional marker of the *)
(* key is dropped in both cases.                                            *)
(***************************************************************************)
C21_SingularizedIffArrayElement ==
  AfterNames =>
    /\ FieldsNamedFromKeys(findTypeById(TopShapeId, types))
    /\ json.t = "arr" =>
         RecordedName(TopShapeId)
           \in MaybeSuffixed(NameOfKey(singular(ConfiguredRootName)))

\* an array under the optional key `users--?` names its element User, and
\* the document is the array of two objects of which one has the key
C21_Witness ==
  /\ pc = "named"
  /\ json.t = "arr"
  /\ \E i \in 1..Len(findTypeById(TopShapeId, types).keys) :
       LET top == findTypeById(TopShapeId, types)
           d == findTypeById(top.vals[i], types)
       IN /\ top.keys[i] = KUsers \o OptSuffix
          /\ d.isArr
          /\ RecordedName(d.vals[1]) = <<"U", "s", "e", "r">>
\* the descriptor is a union with more than one member
IsMultiMemberUnion(d) == d.isArr /\ d.isUnion /\ Len(d.vals) > 1

\* what a reference to the id or token resolves to: the token itself, or the
\* name recorded for the id
ResolvedRef(x) == IF isHash(x) THEN RecordedName(x) ELSE x

\* the number of arrays of one element shape nested at the id
RECURSIVE ArrayLevels(_)
ArrayLevels(x) ==
  LET d == findTypeById(x, types)
  IN IF isHash(x) /\ d.isArr /\ Len(d.vals) = 1
     THEN 1 + ArrayLevels(d.vals[1]) ELSE 0

\* the id or token found below the nested arrays of one element shape
RECURSIVE Innermost(_)
Innermost(x) ==
  LET d == findTypeById(x, types)
  IN IF isHash(x) /\ d.isArr /\ Len(d.vals) = 1
     THEN Innermost(d.vals[1]) ELSE x

\* `[]` written n times
RECURSIVE Brackets(_)
Brackets(n) == IF n = 0 THEN <<>> ELSE ArrSuffix \o Brackets(n - 1)

(***************************************************************************)
(* C22: the name computed for an array descriptor with exactly one element  *)
(* shape, that shape not being a union of several members, is the name or   *)
(* token the element resolves to followed by `[]`; arrays nested n deep     *)
(* over such a shape carry `[]` n times.                                    *)
(***************************************************************************)
C22_SingleShapeArrayRendersElemBrackets ==
  AfterNames =>
    \A n \in 1..Len(names) :
      LET d == findTypeById(names[n].id, types)
      IN (d.isArr /\ Len(d.vals) = 1) =>
           /\ ~IsMultiMemberUnion(findTypeById(d.vals[1], types)) =>
                names[n].name = ResolvedRef(d.vals[1]) \o ArrSuffix
           /\ ~IsMultiMemberUnion(findTypeById(Innermost(names[n].id), types)) =>
                names[n].name = ResolvedRef(Innermost(names[n].id))
                                  \o Brackets(ArrayLevels(names[n].id))

\* an array of arrays of numbers is named number[][]
C22_Witness ==
  /\ pc = "named"
  /\ \E n \in 1..Len(names) :
       /\ ArrayLevels(names[n].id) = 2
       /\ Innermost(names[n].id) = TNumber
       /\ names[n].name = TNumber \o ArrSuffix \o ArrSuffix
\* the names or tokens the members of a union resolve to, in element order
ResolvedMembers(d) == [i \in 1..Len(d.vals) |-> ResolvedRef(d.vals[i])]

(***************************************************************************)
(* C23: the name computed for a union of several members is the names or    *)
(* tokens of its members joined by ` | ` in element order; the name of the  *)
(* array that holds the union as its element is that text in parentheses    *)
(* followed by `[]`, and the array of any other element has no parentheses  *)
(* around the element: an array of a union is never written `A | B[]`.      *)
(***************************************************************************)
C23_UnionJoinedAndParenthesized ==
  AfterNames =>
    \A n \in 1..Len(names) :
      LET d == findTypeById(names[n].id, types)
      IN /\ IsMultiMemberUnion(d) =>
              names[n].name = Join(ResolvedMembers(d), UnionSep)
         /\ (d.isArr /\ ~d.isUnion /\ Len(d.vals) = 1) =>
              LET e == d.vals[1]
                  ed == findTypeById(e, types)
              IN IF IsMultiMemberUnion(ed)
                 THEN /\ names[n].name
                           = <<"(">> \o Join(ResolvedMembers(ed), UnionSep)
                               \o <<")">> \o ArrSuffix
                      /\ names[n].name # RecordedName(e) \o ArrSuffix
                 ELSE names[n].name = ResolvedRef(e) \o ArrSuffix

\* the array of strings and arrays of numbers: (string | number[])[]
C23_Witness ==
  /\ pc = "named"
  /\ \E n \in 1..Len(names) :
       names[n].name = <<"(">> \o TString \o UnionSep \o TNumber \o ArrSuffix
                         \o <<")">> \o ArrSuffix
\* the array descriptors of the collection that hold no element
EmptyArrays == {i \in 1..Len(types) : types[i].isArr /\ types[i].vals = <<>>}

QuestionMarks(key) == Cardinality({i \in 1..Len(key) : key[i] = "?"})

(***************************************************************************)
(* C25: a field whose value resolves to exactly `undefined` is written with *)
(* the type `any` and its (possibly quoted) key followed by `?`; no written *)
(* key carries more than one `?`, whether the field is optional from the    *)
(* merge, is a union with `undefined`, or both (the keys of the documents   *)
(* hold no `?` themselves).                                                 *)
(***************************************************************************)
C25_UndefinedIsOptionalAnyMarkedOnce ==
  /\ pc \in {"described", "done"} =>
       \A k \in 1..Len(descriptions) :
         LET d == descriptions[k]
             shape == findTypeById(ObjectEntries[k].id, types)
         IN /\ Len(shape.keys) = Len(d.keys)
            /\ \A i \in 1..Len(d.keys) :
                 /\ QuestionMarks(d.keys[i]) <= 1
                 /\ Resolved(shape.vals[i]) = TUndefined =>
                      /\ d.vals[i] = TAny
                      /\ d.keys[i] = WrittenKey(BareKey(shape.keys[i]), TRUE)
  /\ pc = "done" =>
       \A k \in 1..Len(result) : ~Includes(result[k], <<"?", "?">>)

\* [{id: undefined}, {note: "x"}]: id is optional from the merge and undefined
C25_Witness ==
  /\ pc = "done"
  /\ json = JArr(<<JObj(<<KId>>, <<JUndef>>), JObj(<<KNote>>, <<JStr>>)>>)
  /\ descriptions[1].keys = <<KId \o <<"?">>, KNote \o <<"?">>>>
  /\ descriptions[1].vals = <<TAny, TString>>
\* a step of getNames or getInterfaceDescriptions keeps the collection
CollectionKept ==
  pc \in {"optimized", "named"} =>
    (types' = types /\ rootTypeId' = rootTypeId)

\* the step of getNames changes the name list only, which grows from empty
OnlyNamesGrow ==
  pc = "optimized" =>
    (/\ names = <<>>
     /\ Len(names') >= Len(names)
     /\ descriptions' = descriptions
     /\ result' = result)

RECURSIVE ObjectsReferred(_)
ObjectsReferred(x) ==
  LET d == findTypeById(x, types)
  IN IF ~isHash(x) \/ d.none THEN {}
     ELSE IF d.isArr THEN UNION {ObjectsReferred(d.vals[i]) : i \in 1..Len(d.vals)}
     ELSE {x}

\* the object shapes the fields of the object shape refer to
InterfacesReferredBy(id) ==
  LET d == findTypeById(id, types)
  IN UNION {ObjectsReferred(d.vals[i]) : i \in 1..Len(d.vals)}

\* the positions in the returned list of the declarations of the name
DeclarationsOf(name) == {k \in 1..Len(result) : InterfaceNameOf(result[k]) = name}

(***************************************************************************)
(* C27: in the list jsonToTS returns, the declaration of an object shape    *)
(* stands before the declaration of every object shape its fields refer to, *)
(* directly or through arrays and unions; each of these shapes has one      *)
(* declaration, also when several shapes refer to it.                       *)
(***************************************************************************)
C27_ParentsDeclaredBeforeChildren ==
  pc = "done" =>
    \A n \in 1..Len(ObjectEntries) :
      \A c \in InterfacesReferredBy(ObjectEntries[n].id) :
        /\ Cardinality(DeclarationsOf(ObjectEntries[n].name)) = 1
        /\ Cardinality(DeclarationsOf(RecordedName(c))) = 1
        /\ \A k \in DeclarationsOf(ObjectEntries[n].name) :
             \A m \in DeclarationsOf(RecordedName(c)) : k < m

\* {user: {name: {id}}, admin: {note: {id}}}: the shape {id} is referred to
\* by the shapes of user and admin and is declared last
C27_Witness ==
  /\ pc = "done"
  /\ Len(result) = 4
  /\ \E c \in {types[i].id : i \in 1..Len(types)} :
       /\ Cardinality({n \in 1..Len(ObjectEntries) :
                         c \in InterfacesReferredBy(ObjectEntries[n].id)}) = 2
       /\ DeclarationsOf(RecordedName(c)) = {4}
\* the branches of the type expression other than `undefined`, in order
OtherBranches(type) == SelectSeq(TopLevelBranches(type), LAMBDA b : b # TUndefined)

(***************************************************************************)
(* C28: of the branches of the union a field resolves to, the written type  *)
(* lacks at most the branch `undefined`, the others standing in their       *)
(* order; a union without a branch `undefined`, such as one with a member   *)
(* named Xundefined, is written as it is, and its key carries `?` only if   *)
(* the field is optional from the merge.                                    *)
(***************************************************************************)
C28_OnlyUndefinedBranchRemoved ==
  pc \in {"described", "done"} =>
    \A k \in 1..Len(descriptions) :
      LET d == descriptions[k]
          shape == findTypeById(ObjectEntries[k].id, types)
      IN \A i \in 1..Len(d.keys) :
           LET type == Resolved(shape.vals[i])
           IN (Len(shape.keys) = Len(d.keys) /\ Len(TopLevelBranches(type)) > 1) =>
                /\ TopLevelBranches(d.vals[i])
                     \in {TopLevelBranches(type), OtherBranches(type)}
                /\ OtherBranches(type) = TopLevelBranches(type) =>
                     /\ d.vals[i] = type
                     /\ d.keys[i] = WrittenKey(BareKey(shape.keys[i]),
                                               EndsWith(shape.keys[i], OptSuffix))
\* the document holds no array
RECURSIVE NoArrays(_)
NoArrays(v) == v.t # "arr" /\ \A i \in 1..Len(v.vs) : NoArrays(v.vs[i])

\* the objects of the document: the value itself and the objects nested in it
RECURSIVE ObjectsIn(_)
ObjectsIn(v) ==
  (IF v.t = "obj" THEN {v} ELSE {})
    \cup UNION {ObjectsIn(v.vs[i]) : i \in 1..Len(v.vs)}

(***************************************************************************)
(* C29: for a JSON document without arrays every object of the document has *)
(* a declaration whose keys are the object's keys, in order, each written   *)
(* as it is or between quotes and none followed by `?`; no field of any     *)
(* declaration is optional, whatever the keys are.                          *)
(***************************************************************************)
C29_NoArraysAllRequired ==
  (pc = "done" /\ IsJson(json) /\ NoArrays(json)) =>
    /\ \A o \in ObjectsIn(json) :
         \E k \in 1..Len(descriptions) :
           descriptions[k].keys = [i \in 1..Len(o.ks) |-> WrittenKey(o.ks[i], FALSE)]
    /\ \A k \in 1..Len(result) : ~Includes(result[k], <<"?", ":">>)

\* the references to object shapes in the order of the depth-first walk in
\* field order from the id, each with the key it is reached under and
\* whether it is reached as the element of an array
RECURSIVE Visits(_, _, _)
VisitsBelow(d, keyName) ==
  [i \in 1..Len(d.vals) |->
     IF d.isArr
     THEN Visits(d.vals[i], IF i = 1 THEN keyName ELSE keyName \o IntToStr(i), TRUE)
     ELSE Visits(d.vals[i], d.keys[i], FALSE)]

Visits(x, keyName, inArray) ==
  LET d == findTypeById(x, types)
  IN IF ~isHash(x) \/ d.none THEN <<>>
     ELSE IF d.isArr THEN Concat(VisitsBelow(d, keyName))
     ELSE <<[id |-> x, key |-> keyName, inArray |-> inArray]>>
            \o Concat(VisitsBelow(d, keyName))

\* the walk of the whole collection
Walk == Visits(rootTypeId, ConfiguredRootName, FALSE)

\* the first reference of the walk to the shape of reference k
FirstVisit(k) ==
  Walk[CHOOSE i \in 1..Len(Walk) :
         /\ Walk[i].id = Walk[k].id
         /\ \A j \in 1..(i - 1) : Walk[j].id # Walk[k].id]

\* the shape of reference k is referred to more than once
IsShared(k) == \E j \in 1..Len(Walk) : j # k /\ Walk[j].id = Walk[k].id

(***************************************************************************)
(* C30: an object shape referred to several times is named from the key of  *)
(* the first reference met by the depth-first walk in field order (the key  *)
(* singularized when that reference is an array element); the name list     *)
(* holds one entry for it, and getNameById called for any later reference,  *)
(* under its own key, returns the recorded name and leaves the list as it   *)
(* is.                                                                      *)
(***************************************************************************)
C30_SharedShapeNamedAtFirstReference ==
  AfterNames =>
    \A k \in 1..Len(Walk) :
      IsShared(k) =>
        LET f == FirstVisit(k)
            ctx == [nm |-> names, err |-> FALSE]
            again == getNameById(Walk[k].id, Walk[k].key, Walk[k].inArray, types, ctx)
        IN /\ Cardinality({i \in 1..Len(names) : names[i].id = f.id}) = 1
           /\ RecordedName(f.id) \in
                MaybeSuffixed(NameOfKey(IF f.inArray THEN singular(BareKey(f.key))
                                        ELSE BareKey(f.key)))
           /\ again.name = RecordedName(f.id)
           /\ again.ctx = ctx

\* {users: [{name}], admin: {name}}: the shape is reached first as the
\* element of users and named User, and the field admin reuses the name
C30_Witness ==
  /\ pc = "done"
  /\ json.t = "obj" /\ json.ks = <<KUsers, KAdmin>>
  /\ Len(names) = 3
  /\ \E k \in 1..Len(Walk) :
       /\ IsShared(k)
       /\ Walk[k].key = KAdmin
       /\ FirstVisit(k).key = KUsers /\ FirstVisit(k).inArray
       /\ RecordedName(Walk[k].id) = <<"U", "s", "e", "r">>
  /\ descriptions[1].vals = <<<<"U","s","e","r","[","]">>, <<"U","s","e","r">>>>
====
